---- MODULE Spec2Model ----
(***************************************************************************)
(* NodeHub API: the DNS reconciliation queue, the DNS provider, the        *)
(* availability monitor, the config, host and node services.               *)
(*                                                                         *)
(* DnsWorker (workers/dns.ts) wraps a p-queue PQueue built with            *)
(* {concurrency, interval, autoStart: true}; every task body is            *)
(* updateDnsRecord (modules/dns/service.ts): store read, provider          *)
(* updateRecord, store write-back.  One task is followed through the await *)
(* points of its body; the queue bookkeeping (enqueue, dequeue, #pending,  *)
(* #isPaused, #next) is that of PQueue as DnsWorker configures it.  PQueue *)
(* is the p-queue package, a dependency whose code is not among the        *)
(* repository's sources: its operations are written here as the package    *)
(* implements them, at the places where DnsWorker calls them.              *)
(*                                                                         *)
(* The provider factory and the Cloudflare adapter (FactorySpec, CfSpec)   *)
(* are followed request by request, the vendor answering each request with *)
(* success, with an error response or not at all.  The monitor worker      *)
(* (MonitorSpec, DiskSpec) is followed through the phases of one sweep at  *)
(* a time, with heartbeats and the clock between them.                     *)
(*                                                                         *)
(* CadenceSpec is the monitor with its timer firing on time, ExitSpec the  *)
(* queue until a signal ends the process.  The config service (RenderSpec, *)
(* ConfigSpec) renders templates, texts being sequences of tokens, and is  *)
(* followed through loadTemplate's await of readFile.  The host service    *)
(* (HostSpec) is followed through the awaits of overlapping createHost and *)
(* processHeartbeat calls, over a hosts table whose names are UNIQUE.      *)
(*                                                                         *)
(* The node service (NodeSpec) links nodes to hosts and unlinks them, one  *)
(* statement at a time, over tables with the foreign key of nodes.host_id. *)
(* RaceSpec is the Cloudflare adapter with a second updateRecord call made *)
(* while one is in progress, OverlapSpec the monitor with a sweep that the *)
(* timer begins while the sweep before it has not ended.                   *)
(***************************************************************************)
EXTENDS Integers, Sequences, FiniteSets, TLC

\* ------------------------------------------------------------------ bounds
MaxTasks == 3
MaxConcurrency == 2
MaxInterval == 2
MaxTime == 2
MaxBatch == 2
MaxNodes == 2
MaxCalls == 2
MaxPieces == 3
MaxHostCalls == 2
MaxHostIds == 3

Tasks == 1..MaxTasks

\* DnsUpdateRequest {nodeId, domain, type, value}
Requests ==
  { [nodeId |-> n, domain |-> "hk01.example.com", type |-> "A", value |-> v] :
      n \in 1..MaxNodes, v \in {"10.0.0.1", "10.0.0.2"} }

NoRequest == [nodeId |-> 0, domain |-> "", type |-> "", value |-> ""]

\* DnsProviderConfig {provider, apiKey}
ProviderConfigs ==
  [provider : {"cloudflare", "godaddy", "namecheap", "other"}, apiKey : {"", "token"}]

VARIABLES
  concurrency,      \* PQueue #concurrency (constructor argument)
  interval,         \* PQueue #interval (constructor argument)
  queue,            \* PQueue #queue: the run closures not yet started, by task
  pending,          \* PQueue #pending
  intervalCount,    \* PQueue #intervalCount
  isPaused,         \* PQueue #isPaused
  defaultProvider,  \* service.ts defaultProvider: "null" or the provider's name
  dnsRecords,       \* the dns_records table: rows in id order, id = index
  nextTask,         \* the next addUpdateTask call's task
  request,          \* request[t]: the DnsUpdateRequest task t's closure holds
  pc,               \* pc[t]: where task t's body stands
  node,             \* node[t]: updateDnsRecord's local: the id of the row selected, 0 if none
  result,           \* result[t]: what addUpdateTask delivered to its caller
  batch,            \* the tasks of the addUpdateTasks call, in list order
  batchValues,      \* Promise.all's values array
  batchResult,      \* the promise addUpdateTasks returned
  startedAt,        \* startedAt[t]: the clock when task t's body started, -1 before
  execCount,        \* execCount[t]: times task t's body was started
  providerCalls,    \* providerCalls[t]: provider.updateRecord calls t's running body has made
  providerResult,   \* providerResult[t]: updateDnsRecord's local `success`
  now,              \* the clock
  nodeIds,          \* the nodes the callers of addUpdateTask ask updates for
  providersModule,  \* the copy of the provider factory that './providers' resolves to
  cfApiToken,       \* CloudflareProvider.apiToken of the installed provider
  cfZoneId,         \* CloudflareProvider.zoneId of the installed provider, "" if not given
  initCall,         \* the last initializeDnsProvider call: its config and how it ended
  cfRecords,        \* the vendor's DNS records, in id order
  cfPc,             \* where the provider call in progress stands
  cfCall,           \* the provider call in progress: its arguments and locals
  cfLog,            \* the provider calls that have returned, in order
  cfOverlap,        \* the provider call made while another is in progress: where it stands, its arguments and locals
  hosts,            \* the hosts table: hosts[name] is the row of the host
  monitorConfig,    \* MonitorWorker.config
  telegramEnabled,  \* TelegramNotifier.enabled
  diskReports,      \* the diskUsed values that heartbeats report
  isRunning,        \* MonitorWorker.isRunning
  sweepPc,          \* where the sweep (runCheck) in progress stands
  heartbeatCheck,   \* how far the sweep's checkHostHeartbeats got
  diskCheck,        \* how far the sweep's checkDiskSpace got
  offlineAttempts,  \* offlineAttempts[name]: notifyHostOffline calls of the sweep
  diskAttempts,     \* diskAttempts[name]: notifyLowDisk calls of the sweep
  notified,         \* notified[name]: notifyHostOffline was called since the host's last heartbeat
  sweepStale,       \* the hosts stored stale and not offline when the sweep began, no heartbeat since
  intervalId,       \* MonitorWorker.intervalId: the clock at which the timer fires next, Null without a timer
  lastSweepAt,      \* the clock when the last runCheck was called, Null before the first
  delivered,        \* delivered[name]: what notifyHostOffline returned in the sweep, "none" if not called
  exited,           \* process.exit was called
  templateFiles,    \* the template store: templateFiles[<<type, name>>] is the file's body
  templateCache,    \* templateCache of the config service, by <<type, name>>
  configNodes,      \* the nodes table as getNodeContext reads it, by id
  configHosts,      \* the hosts table's ip, ipv6 and region as getNodeContext reads them, by id
  configCall,       \* the generateConfig call in progress
  configResult,     \* how the last generateConfig call ended
  readsSinceReload, \* the keys whose file readFile has read since the last reloadTemplates
  hostRows,         \* the hosts table as the host service reads and writes it: a set of rows
  hostSeq,          \* the hosts table's AUTOINCREMENT sequence: the last id given
  hostCall,         \* hostCall[c]: the host service call c, its arguments and locals
  nodeCall,         \* the linkNodeToHost or unlinkNodeFromHost call in progress, or the last
  liveTimers,       \* the interval timers of the runtime that were set and not cleared
  overlapSweep      \* the sweep begun while another is in progress: where it stands and its notifyHostOffline calls

vars == <<concurrency, interval, nodeIds, queue, pending, intervalCount, isPaused,
          defaultProvider, dnsRecords, nextTask, request, pc, node, result,
          batch, batchValues, batchResult, startedAt, execCount, providerCalls,
          providerResult, now, providersModule, cfApiToken, cfZoneId, initCall,
          cfRecords, cfPc, cfCall, cfLog, cfOverlap, hosts, monitorConfig, telegramEnabled,
          diskReports, isRunning, sweepPc, heartbeatCheck, diskCheck,
          offlineAttempts, diskAttempts, notified, sweepStale, intervalId,
          lastSweepAt, delivered, exited, templateFiles, templateCache,
          configNodes, configHosts, configCall, configResult, readsSinceReload,
          hostRows, hostSeq, hostCall, nodeCall, liveTimers, overlapSweep>>

\* the requests the callers make
OfferedRequests == {r \in Requests : r.nodeId \in nodeIds}

\* The requests offered to the call that admits task t.  The code never looks
\* into a value or a node id, so they are interchangeable: the first call's
\* value is fixed, and task t is for one of the first t nodes.
RequestsFor(t) ==
  {r \in OfferedRequests : /\ r.nodeId <= t
                           /\ t = 1 => r.value = "10.0.0.1"}

\* ---------------------------------------------------------------- helpers
RECURSIVE InSeq(_, _)
InSeq(x, s) == IF s = <<>> THEN FALSE ELSE Head(s) = x \/ InSeq(x, Tail(s))

IndexOf(x, s) == CHOOSE i \in 1..Len(s) : s[i] = x

\* -------------------------------------------------------- provider factory
\* createDnsProvider: a provider for cloudflare with a token, a throw otherwise
createDnsProvider(config) ==
  IF config.provider = "cloudflare" /\ config.apiKey # ""
  THEN "cloudflare"
  ELSE "throw"

\* providers/index as the second copy in the sources has it: no token check,
\* and godaddy and namecheap fall to the default case
createDnsProviderUnchecked(config) ==
  IF config.provider = "cloudflare" THEN "cloudflare" ELSE "throw"

\* no initializeDnsProvider call yet
NoInitCall == [config |-> [provider |-> "", apiKey |-> "", zoneId |-> ""], outcome |-> "none"]

\* DnsProviderConfig {provider, apiKey, zoneId?}
ZoneConfigs ==
  [provider : {"cloudflare", "godaddy", "namecheap", "other"}, apiKey : {"", "token"},
   zoneId : {"", "z1"}]

\* ------------------------------------------------------ Cloudflare provider
\* a domain name is the sequence of its labels
HostName == <<"hk01", "example", "com">>
ApexName == <<"example", "com">>
BareName == <<"localhost">>
Domains == {HostName, ApexName, BareName}
RecordTypes == {"A", "AAAA"}
Values == {"10.0.0.1", "10.0.0.2"}

\* how the vendor answers one request: the request is carried out and answered
\* with success, it is refused with an error response ({success: false}), or
\* fetch itself fails (a transport error)
Outcomes == {"ok", "vendor_error", "transport"}

\* the zones of the vendor account, and their identifiers
ZoneIdOf(base) == IF base = ApexName THEN "z1" ELSE ""

\* no provider call in progress
NoCall ==
  [op |-> "none", domain |-> <<>>, type |-> "", value |-> "", zoneId |-> "",
   existing |-> 0, failed |-> FALSE]

\* no second provider call in progress
NoOverlap == [pc |-> "idle", call |-> NoCall]

\* getBaseDomain: the last two labels, or the name itself when it has one label
getBaseDomain(domain) ==
  IF Len(domain) >= 2 THEN SubSeq(domain, Len(domain) - 1, Len(domain)) ELSE domain

\* getZoneId: the id of the first zone the vendor lists for the base domain;
\* null ("") when none is listed, on an error response, and on a caught error
getZoneId(domain, outcome) ==
  IF outcome = "ok" THEN ZoneIdOf(getBaseDomain(domain)) ELSE ""

\* the vendor's answer to GET dns_records?type=&name= in a zone
Matching(records, zoneId, domain, type) ==
  {i \in 1..Len(records) :
     records[i].zoneId = zoneId /\ records[i].name = domain /\ records[i].type = type}

\* a lookup whose answer is never used: every record is taken for new
findRecordNull(records, zoneId, domain, type, outcome) == {0}

\* findRecord: data.result[0] (its id) when the vendor answers with success and
\* a non-empty list; null (0) on an empty list, on an error response and on a
\* caught error.  The set of the ids it can return: the vendor chooses the order
\* of the list.
findRecord(records, zoneId, domain, type, outcome) ==
  IF outcome = "ok" /\ Matching(records, zoneId, domain, type) # {}
  THEN Matching(records, zoneId, domain, type)
  ELSE {0}

\* updateExistingRecord: PUT dns_records/{recordId} with {content: value}; the
\* vendor's records after the request
updateExistingRecord(records, recordId, value, outcome) ==
  IF outcome = "ok"
  THEN [i \in 1..Len(records) |->
          IF records[i].id = recordId THEN [records[i] EXCEPT !.content = value]
          ELSE records[i]]
  ELSE records

\* a create that the vendor turns into nothing when the name and type are taken
createNewRecordOnce(records, zoneId, domain, type, value, outcome) ==
  IF outcome = "ok" /\ Matching(records, zoneId, domain, type) = {}
  THEN Append(records, [id |-> Len(records) + 1, zoneId |-> zoneId, name |-> domain,
                        type |-> type, content |-> value])
  ELSE records

\* createNewRecord: POST dns_records with {type, name, content, ttl}; the
\* vendor's records after the request
createNewRecord(records, zoneId, domain, type, value, outcome) ==
  IF outcome = "ok"
  THEN Append(records, [id |-> Len(records) + 1, zoneId |-> zoneId, name |-> domain,
                        type |-> type, content |-> value])
  ELSE records

\* `await fetch(...)` in updateExistingRecord and createNewRecord: the response
\* is not read, so only a transport error throws
WriteThrows(outcome) == outcome = "transport"

\* ----------------------------------------------------------------- monitor
\* the hosts of the store, by name
HostNames == {"vps-1", "vps-2"}

\* MonitorWorker.config defaults: hostHeartbeatTimeout (300 s, here in units
\* of the model's clock) and diskThreshold (percent)
HeartbeatTimeout == 1
DiskThreshold == 90

\* MonitorWorker.config.checkInterval (60000 ms by default), in units of the
\* model's clock
CheckInterval == 1

\* a heartbeat received before the clock of the model starts
Earlier == -3

\* a stored lastHeartbeat so far in the past that `new Date(lastHeartbeat *
\* 1000)` is outside the range of Date
BeforeDates == -100

\* SQL NULL in the nullable integer columns last_heartbeat and disk_used
Null == -1

\* hosts.disk_total and hosts.disk_used (GB)
DiskTotals == {0, 100}
DiskUsedValues == {89, 90, 95}

\* `host.lastHeartbeat || 0`
LastHeartbeat(host) == IF host.lastHeartbeat = Null THEN 0 ELSE host.lastHeartbeat

\* checkHostHeartbeats, lines 111-114: timeSinceHeartbeat > hostHeartbeatTimeout
IsStale(host, t) == t - LastHeartbeat(host) > monitorConfig.hostHeartbeatTimeout

\* a sweep that looks at offline hosts too
SkipsHostNever(host) == FALSE

\* checkHostHeartbeats, lines 107-109: a host stored offline is skipped
SkipsHost(host) == host.status = "offline"

\* notifyHostOffline builds its message before it sends: the metadata is
\* built with toISOString when lastHeartbeat is truthy, and toISOString throws
\* a RangeError on a time outside Date's range
NotifyHostOfflineThrows(lastHeartbeat) ==
  lastHeartbeat # 0 /\ lastHeartbeat <= BeforeDates

\* what the Telegram API does with one sendMessage request: it accepts it, it
\* answers with an error (an HTTP error status, or ok: false), or fetch fails
SendOutcomes == {"ok", "error_response", "transport"}

\* TelegramNotifier.send: false when disabled; else true when the API accepted
\* the message and false on every failure, which is caught and logged
send(enabled, outcome) == enabled /\ outcome = "ok"

\* what the notifyHostOffline calls of the loop returned, for the API
\* outcomes of the sweep; a call that threw returned nothing
Delivered(calls, outcomes) ==
  [name \in HostNames |->
     IF calls[name] = 0 \/ NotifyHostOfflineThrows(LastHeartbeat(hosts[name]))
     THEN "none"
     ELSE IF send(telegramEnabled, outcomes[name]) THEN "true" ELSE "false"]

\* a timer that fires one clock unit late
NextDueLate(t, checkInterval) == t + checkInterval + 1

\* setInterval(callback, checkInterval), set or fired at clock t: the clock at
\* which the callback runs next
NextDue(t, checkInterval) == t + checkInterval

\* the for loop of checkHostHeartbeats over the list getHosts returned, at
\* clock t: the notifyHostOffline calls made per host, and whether the loop
\* ended by an exception
RECURSIVE HeartbeatLoop(_, _, _)
HeartbeatLoop(list, t, calls) ==
  IF list = <<>> THEN [calls |-> calls, threw |-> FALSE]
  ELSE LET name == Head(list)
           host == hosts[name]
       IN IF SkipsHost(host) THEN HeartbeatLoop(Tail(list), t, calls)
          ELSE IF /\ IsStale(host, t)
                  /\ monitorConfig.notifyOnHostOffline
                  /\ telegramEnabled
               THEN IF NotifyHostOfflineThrows(LastHeartbeat(host))
                    THEN [calls |-> [calls EXCEPT ![name] = @ + 1], threw |-> TRUE]
                    ELSE HeartbeatLoop(Tail(list), t, [calls EXCEPT ![name] = @ + 1])
               ELSE HeartbeatLoop(Tail(list), t, calls)

\* markOfflineHosts: UPDATE hosts SET status = 'offline' WHERE last_heartbeat <
\* now - timeoutSeconds AND status = 'online' (a NULL last_heartbeat matches
\* no comparison)
MarkOffline(rows, timeoutSeconds, t) ==
  [name \in HostNames |->
     IF /\ rows[name].lastHeartbeat # Null
        /\ rows[name].lastHeartbeat < t - timeoutSeconds
        /\ rows[name].status = "online"
     THEN [rows[name] EXCEPT !.status = "offline"]
     ELSE rows[name]]

\* checkDiskSpace, lines 139-141: `!host.diskTotal || host.diskUsed ===
\* undefined`; a row never holds undefined, a NULL disk_used is null
SkipsDisk(host) == host.diskTotal = 0

\* a disk check that compares with > instead of >=
IsLowDiskStrict(host) ==
  (IF host.diskUsed = Null THEN 0 ELSE host.diskUsed) * 100
    > monitorConfig.diskThreshold * host.diskTotal

\* checkDiskSpace, lines 143-145: (diskUsed / diskTotal) * 100 >= diskThreshold,
\* a null diskUsed counting as 0
IsLowDisk(host) ==
  (IF host.diskUsed = Null THEN 0 ELSE host.diskUsed) * 100
    >= monitorConfig.diskThreshold * host.diskTotal

\* the for loop of checkDiskSpace over the list getHosts returned: the
\* notifyLowDisk calls made per host
RECURSIVE DiskLoop(_, _)
DiskLoop(list, calls) ==
  IF list = <<>> THEN calls
  ELSE LET name == Head(list)
           host == hosts[name]
       IN IF SkipsDisk(host) THEN DiskLoop(Tail(list), calls)
          ELSE IF IsLowDisk(host) /\ monitorConfig.notifyOnLowDisk /\ telegramEnabled
               THEN DiskLoop(Tail(list), [calls EXCEPT ![name] = @ + 1])
               ELSE DiskLoop(Tail(list), calls)

\* getHosts(): every stored host; the order of the list is the store's
GetHosts ==
  {list \in [1..Cardinality(HostNames) -> HostNames] :
     \A i, j \in 1..Cardinality(HostNames) : i # j => list[i] # list[j]}

NoCalls == [name \in HostNames |-> 0]

\* no sweep was begun while another is in progress
NoSweep == [pc |-> "idle", calls |-> NoCalls, seen |-> [name \in HostNames |-> Null]]

\* a clearInterval that leaves the timer set
ClearIntervalLeaks(timers) == timers

\* setInterval and clearInterval of the runtime, on the number of timers set
\* and not cleared
SetInterval(timers) == timers + 1
ClearInterval(timers) == timers - 1

\* ---------------------------------------------------------- config module
\* A text is the sequence of its tokens: "{{", "}}", the name of a variable,
\* or any other piece of text.  The keys of `replacements`, in insertion order:
ReplacementKeys ==
  <<"NODE_ID", "NODE_NAME", "DOMAIN", "PORT", "PROXY_TYPE", "HOST_IP", "HOST_IPV6",
    "HOST_REGION", "ADDITIONAL_PORTS">>

KeyNames == {ReplacementKeys[i] : i \in 1..Len(ReplacementKeys)}

Placeholder(key) == <<"{{", key, "}}">>

\* the text occurs in the other
Contains(text, part) ==
  \E i \in 1..(Len(text) - Len(part) + 1) : SubSeq(text, i, i + Len(part) - 1) = part

\* result.split(key).join(value): every occurrence of key, found from the
\* left and not overlapping, gives way to value; value is not looked into
RECURSIVE SplitJoin(_, _, _)
SplitJoin(text, key, value) ==
  IF Len(text) < Len(key) THEN text
  ELSE IF SubSeq(text, 1, Len(key)) = key
       THEN value \o SplitJoin(SubSeq(text, Len(key) + 1, Len(text)), key, value)
       ELSE <<Head(text)>> \o SplitJoin(Tail(text), key, value)

\* String(parseInt(p.trim())) for a piece of the stored additional_ports
PortText(p) ==
  CASE p = "8443" -> "8443"
    [] p = " 8444" -> "8444"
    [] OTHER -> "NaN"

\* additionalPorts.join(',')
RECURSIVE JoinComma(_)
JoinComma(ports) ==
  IF ports = <<>> THEN <<>>
  ELSE IF Len(ports) = 1 THEN <<ports[1]>>
       ELSE <<ports[1], ",">> \o JoinComma(Tail(ports))

\* getNodeContext for a stored node: the context, with host undefined (<<>>)
\* when the node has no hostId or no host has that id
getNodeContext(nodesTable, hostsTable, nodeId) ==
  LET nodeData == nodesTable[nodeId]
  IN [id |-> nodeData.id,
      name |-> nodeData.name,
      domain |-> nodeData.domain,
      port |-> nodeData.port,
      additionalPorts |-> [i \in 1..Len(nodeData.additionalPorts) |->
                             PortText(nodeData.additionalPorts[i])],
      proxyType |-> nodeData.proxyType,
      host |-> IF nodeData.hostId # 0 /\ nodeData.hostId \in DOMAIN hostsTable
               THEN <<hostsTable[nodeData.hostId]>>
               ELSE <<>>]

\* a missing host or field that comes out as the text 'undefined'
HostFieldLiteral(context, field) ==
  IF context.host = <<>> \/ context.host[1][field] = <<>>
  THEN <<"undefined">>
  ELSE context.host[1][field]

\* `context.host?.field || ''`
HostField(context, field) ==
  IF context.host = <<>> THEN <<>> ELSE context.host[1][field]

\* the `replacements` record of replaceVariables
Replacements(context) ==
  [key \in KeyNames |->
     CASE key = "NODE_ID" -> <<ToString(context.id)>>
       [] key = "NODE_NAME" -> context.name
       [] key = "DOMAIN" -> context.domain
       [] key = "PORT" -> <<ToString(context.port)>>
       [] key = "PROXY_TYPE" -> context.proxyType
       [] key = "HOST_IP" -> HostField(context, "ip")
       [] key = "HOST_IPV6" -> HostField(context, "ipv6")
       [] key = "HOST_REGION" -> HostField(context, "region")
       [] key = "ADDITIONAL_PORTS" -> JoinComma(context.additionalPorts)]

\* the for loop of replaceVariables from entry i on
RECURSIVE ReplaceEntries(_, _, _)
ReplaceEntries(text, i, replacements) ==
  IF i > Len(ReplacementKeys) THEN text
  ELSE ReplaceEntries(SplitJoin(text, Placeholder(ReplacementKeys[i]),
                                replacements[ReplacementKeys[i]]),
                      i + 1, replacements)

replaceVariables(template, context) == ReplaceEntries(template, 1, Replacements(context))

\* cacheKey of loadTemplate, and the file the template is read from: the
\* config type and the name, 'default' when no name is given
TemplateKey(req) ==
  <<req.configType, IF req.template = "" THEN "default" ELSE req.template>>

\* a cache that also remembers a load that failed, as an empty template
CacheSetAlways(cache, key, read) ==
  [k \in DOMAIN cache \cup {key} |->
     IF k = key THEN (IF read.ok THEN read.content ELSE <<>>) ELSE cache[k]]

\* loadTemplate after readFile: templateCache.set(cacheKey, content) when the
\* file was read, nothing when readFile threw
CacheSet(cache, key, read) ==
  IF read.ok
  THEN [k \in DOMAIN cache \cup {key} |-> IF k = key THEN read.content ELSE cache[k]]
  ELSE cache

NoConfigRequest == [nodeId |-> 0, configType |-> "", template |-> ""]
NoConfigCall == [pc |-> "idle", request |-> NoConfigRequest, content |-> <<>>]
NoConfigResult ==
  [request |-> NoConfigRequest, outcome |-> "none", template |-> <<>>, config |-> <<>>]

\* ------------------------------------------------------------------ PQueue
\* new PQueue({concurrency, interval, autoStart: true}): intervalCap is not
\* given and keeps its default
Infinity == "Infinity"
IntervalCap == Infinity

IsIntervalIgnored == IntervalCap = Infinity \/ interval = 0

QState == [queue |-> queue, pending |-> pending, intervalCount |-> intervalCount,
           isPaused |-> isPaused, started |-> <<>>]

\* PriorityQueue.enqueue with every task at the default priority 0
Enqueue(q, t) == Append(q, t)

\* a dequeue that takes the element at the back
DequeueLast(q) == [item |-> q[Len(q)], rest |-> SubSeq(q, 1, Len(q) - 1)]

\* PriorityQueue.dequeue: the element at the front
Dequeue(q) == [item |-> Head(q), rest |-> Tail(q)]

DoesIntervalAllowAnother(s) == IsIntervalIgnored \/ s.intervalCount < IntervalCap

\* a concurrency check that is off by one
DoesConcurrentAllowAnotherLax(s) == s.pending <= concurrency

DoesConcurrentAllowAnother(s) == s.pending < concurrency

\* a start check that does not look at #isPaused
CanStartIgnoringPause(s) ==
  /\ Len(s.queue) > 0
  /\ DoesIntervalAllowAnother(s)
  /\ DoesConcurrentAllowAnother(s)

\* whether #tryToStartAnother starts a job
CanStart(s) ==
  /\ Len(s.queue) > 0
  /\ ~s.isPaused
  /\ DoesIntervalAllowAnother(s)
  /\ DoesConcurrentAllowAnother(s)

\* #tryToStartAnother: dequeue one job and call it (run: #pending++, #intervalCount++)
TryToStartAnother(s) ==
  IF CanStart(s)
  THEN [s EXCEPT !.queue = Dequeue(s.queue).rest,
                 !.started = Append(s.started, Dequeue(s.queue).item),
                 !.pending = s.pending + 1,
                 !.intervalCount = s.intervalCount + 1]
  ELSE s

\* #processQueue: while (#tryToStartAnother()) {}
RECURSIVE ProcessQueue(_)
ProcessQueue(s) == IF CanStart(s) THEN ProcessQueue(TryToStartAnother(s)) ELSE s

\* PQueue.add: enqueue the run closure, then #tryToStartAnother
Add(s, t) == TryToStartAnother([s EXCEPT !.queue = Enqueue(s.queue, t)])

\* requests.map(addUpdateTask): one add per request, in list order
RECURSIVE AddAll(_, _)
AddAll(s, ts) == IF ts = <<>> THEN s ELSE AddAll(Add(s, Head(ts)), Tail(ts))

\* a #next that forgets the job that ended
QueueNextKeepsPending(s) == TryToStartAnother(s)

\* #next: #pending--, then #tryToStartAnother
QueueNext(s) == TryToStartAnother([s EXCEPT !.pending = s.pending - 1])

\* PQueue.start
QueueStart(s) ==
  IF ~s.isPaused THEN s ELSE ProcessQueue([s EXCEPT !.isPaused = FALSE])

\* PQueue.pause
QueuePause(s) == [s EXCEPT !.isPaused = TRUE]

\* a clear that leaves the job at the front
QueueClearKeepHead(s) ==
  [s EXCEPT !.queue = IF s.queue = <<>> THEN <<>> ELSE <<Head(s.queue)>>]

\* PQueue.clear: a fresh, empty #queue
QueueClear(s) == [s EXCEPT !.queue = <<>>]

\* a run closure that puts a failed task back on the queue
RunFinallyRetry(s, t, outcome) ==
  IF outcome = "ret_true"
  THEN QueueNext(s)
  ELSE QueueNext([s EXCEPT !.queue = Enqueue(s.queue, t)])

\* the run closure PQueue.add builds: settle the promise with the body's
\* outcome, and in every case `finally { this.#next() }`
RunFinally(s, t, outcome) == QueueNext(s)

\* a body that goes to the store without looking at the provider
BodyEntryUnchecked == "select"

\* the synchronous part of a started task body: updateDnsRecord up to its
\* first await (the provider check, then the store read is issued)
BodyEntry == IF defaultProvider = "null" THEN "throw" ELSE "select"

\* the requests left once PQueue.clear has dropped the waiting run closures
DropClosures(q) == [t \in Tasks |-> IF InSeq(t, q) THEN NoRequest ELSE request[t]]

\* write the queue state s back, the jobs it started entering their bodies
Commit(s, pcBase) ==
  /\ queue' = s.queue
  /\ pending' = s.pending
  /\ intervalCount' = s.intervalCount
  /\ isPaused' = s.isPaused
  /\ pc' = [t \in Tasks |-> IF InSeq(t, s.started) THEN BodyEntry ELSE pcBase[t]]
  /\ execCount' = [t \in Tasks |->
                     IF InSeq(t, s.started) THEN execCount[t] + 1 ELSE execCount[t]]
  /\ startedAt' = [t \in Tasks |-> IF InSeq(t, s.started) THEN now ELSE startedAt[t]]

\* ------------------------------------------------------------ task results
\* an addUpdateTask without the catch clause
AddUpdateTaskResultRethrow(outcome) ==
  CASE outcome = "ret_true" -> "true"
    [] outcome = "ret_false" -> "false"
    [] outcome = "throw" -> "rejected"

\* an addUpdateTask that awaits the task and returns false in every case
AddUpdateTaskResultDropsValue(outcome) == "false"

\* addUpdateTask's continuation: `return result || false`, or the catch
\* clause's `return false` when queue.add rejected
AddUpdateTaskResult(outcome) ==
  CASE outcome = "ret_true" -> "true"
    [] outcome = "ret_false" -> "false"
    [] outcome = "throw" -> "false"

\* Promise.all: values[index] is set as promise index fulfils; the first
\* rejection rejects the whole
PromiseAllValues(values, index, v) == [values EXCEPT ![index] = v]

PromiseAllResult(prev, values, v) ==
  IF prev.state # "pending" THEN prev
  ELSE IF v = "rejected" THEN [state |-> "rejected", values |-> <<>>]
  ELSE IF \A i \in 1..Len(values) : values[i] # "none"
       THEN [state |-> "fulfilled", values |-> values]
       ELSE prev

\* --------------------------------------------------------------- the store
\* an updateDnsRecord that never finds the node's row
SelectNodeNone(n) == 0

\* db.select().from(dnsRecords).where(nodeId = n).limit(1): the first row's id
SelectNode(n) ==
  LET ids == {i \in 1..Len(dnsRecords) : dnsRecords[i].nodeId = n}
  IN IF ids = {} THEN 0 ELSE CHOOSE i \in ids : \A j \in ids : i <= j

\* db.update(dnsRecords).set({domain, type, value}).where(id = rowId)
UpdateRow(rows, rowId, r) ==
  [i \in 1..Len(rows) |->
     IF rows[i].id = rowId
     THEN [rows[i] EXCEPT !.domain = r.domain, !.type = r.type, !.value = r.value]
     ELSE rows[i]]

\* db.insert(dnsRecords).values({nodeId, domain, type, value, isActive: true})
InsertRow(rows, r) ==
  Append(rows, [id |-> Len(rows) + 1, nodeId |-> r.nodeId, domain |-> r.domain,
                type |-> r.type, value |-> r.value, isActive |-> TRUE])

\* ------------------------------------------------------------------- state
\* the state once getDnsWorker has constructed the DnsWorker
\* the provider modules are loaded and initializeDnsProvider has not been called
ProviderLoaded(modules) ==
  /\ providersModule \in modules
  /\ defaultProvider = "null"
  /\ cfApiToken = ""
  /\ cfZoneId = ""
  /\ initCall = NoInitCall

\* initializeDnsProvider has installed a CloudflareProvider with a token and
\* one of the zone ids
ProviderInstalled(zoneIds) ==
  /\ providersModule = "part_005"
  /\ defaultProvider = "cloudflare"
  /\ cfApiToken = "token"
  /\ cfZoneId \in zoneIds
  /\ initCall = [config |-> [provider |-> "cloudflare", apiKey |-> "token",
                             zoneId |-> cfZoneId],
                 outcome |-> "returned"]

\* no provider call has been made and the vendor holds no record
NoProviderCalls ==
  /\ cfRecords = <<>>
  /\ cfPc = "idle"
  /\ cfCall = NoCall
  /\ cfLog = <<>>
  /\ cfOverlap = NoOverlap

\* the DnsWorker as its constructor leaves it, and an empty store
WorkerConstructed(concurrencies, intervals, nodes) ==
  /\ concurrency \in concurrencies
  /\ interval \in intervals
  /\ nodeIds = nodes
  /\ queue = <<>>
  /\ pending = 0
  /\ intervalCount = 0
  /\ isPaused = FALSE
  /\ dnsRecords = <<>>
  /\ nextTask = 1
  /\ request = [t \in Tasks |-> NoRequest]
  /\ pc = [t \in Tasks |-> "new"]
  /\ node = [t \in Tasks |-> 0]
  /\ result = [t \in Tasks |-> "pending"]
  /\ batch = <<>>
  /\ batchValues = <<>>
  /\ batchResult = [state |-> "none", values |-> <<>>]
  /\ startedAt = [t \in Tasks |-> -1]
  /\ execCount = [t \in Tasks |-> 0]
  /\ providerCalls = [t \in Tasks |-> 0]
  /\ providerResult = [t \in Tasks |-> "none"]
  /\ now = 0
  /\ exited = FALSE

\* the MonitorWorker as its constructor leaves it, not started, over a store
\* that holds the hosts `names`, their rows among `rows`
MonitorConstructed(names, rows, timeouts, intervals, offlineFlags, diskFlags, telegrams, reports) ==
  /\ hosts \in [names -> rows]
  /\ monitorConfig \in [hostHeartbeatTimeout : timeouts,
                         checkInterval : intervals,
                         notifyOnHostOffline : offlineFlags,
                         notifyOnLowDisk : diskFlags,
                         diskThreshold : {DiskThreshold}]
  /\ telegramEnabled \in telegrams
  /\ diskReports = reports
  /\ isRunning = FALSE
  /\ sweepPc = "idle"
  /\ heartbeatCheck = "none"
  /\ diskCheck = "none"
  /\ offlineAttempts = [name \in names |-> 0]
  /\ diskAttempts = [name \in names |-> 0]
  /\ notified = [name \in names |-> FALSE]
  /\ sweepStale = {}
  /\ intervalId = Null
  /\ lastSweepAt = Null
  /\ delivered = [name \in names |-> "none"]
  /\ liveTimers = 0
  /\ overlapSweep = NoSweep

\* an empty hosts table, and a monitor with the default config that is never
\* started
NoMonitor ==
  MonitorConstructed({}, {}, {HeartbeatTimeout}, {CheckInterval}, {TRUE}, {TRUE},
                     {FALSE}, {})

\* ------------------------------------------------------------ host service
\* the calls of the host service that are in progress at once
HostCalls == 1..MaxHostCalls

\* hosts.status as stored
HostStatuses == {"unknown", "online", "offline"}

\* a row of the hosts table: its id, its name, status and last_heartbeat
HostRow(id, name, status, lastHeartbeat) ==
  [id |-> id, name |-> name, status |-> status, lastHeartbeat |-> lastHeartbeat]

\* null, as getHostByName returns it
NoHost == HostRow(0, "", "", Null)

\* HostInfo {name, status?, lastHeartbeat?}: a field left out is "" or Null
HostInfo(name, status, lastHeartbeat) ==
  [name |-> name, status |-> status, lastHeartbeat |-> lastHeartbeat]

NoHostInfo == HostInfo("", "", Null)

\* getHostByName: select ... where name = ? limit 1, result[0] || null
getHostByName(rows, name) ==
  IF \E r \in rows : r.name = name
  THEN CHOOSE r \in rows : r.name = name /\ \A q \in rows : q.name = name => r.id <= q.id
  ELSE NoHost

\* createHost's newHost: status is hostInfo.status || 'unknown', lastHeartbeat
\* is hostInfo.lastHeartbeat || now
NewHost(id, info, t) ==
  HostRow(id, info.name,
          IF info.status = "" THEN "unknown" ELSE info.status,
          IF info.lastHeartbeat = Null THEN t ELSE info.lastHeartbeat)

\* the hostInfo processHeartbeat passes to createHost: {name, ip: '',
\* cpuCores: 0, ..., status: 'online', ...heartbeat}; HostHeartbeat has
\* neither a status nor a lastHeartbeat
HeartbeatInfo(name) == HostInfo(name, "online", Null)

\* the UNIQUE constraint of hosts.name, as an insert meets it
UniqueUnchecked(rows, name) == FALSE

UniqueViolated(rows, name) == \E r \in rows : r.name = name

\* processHeartbeat's update ... set status = 'online', lastHeartbeat = now
\* where id = host.id
UpdateOnline(rows, id, t) ==
  {IF r.id = id THEN HostRow(r.id, r.name, "online", t) ELSE r : r \in rows}

\* a call of the host service: the function called, where it stands, its
\* hostInfo, the id of the host it found or returned (0 for null and for
\* undefined) and the error thrown
NoHostCall ==
  [op |-> "", pc |-> "idle", info |-> NoHostInfo, host |-> 0, error |-> ""]

\* the hosts table holding `rows`, and no call of the host service made
HostsStored(tables) ==
  /\ hostRows \in tables
  /\ hostSeq = Cardinality(hostRows)
  /\ hostCall = [c \in HostCalls |-> NoHostCall]

NoHostCalls == HostsStored({{}})

\* ------------------------------------------------------------ node service
\* NodeUpdate {hostId?}: the key given with a value, given as undefined, or
\* (for a value v) <<v>>; undefined is <<>>
Undefined == <<>>

\* drizzle's update(...).set(values): the entries whose value is undefined are
\* left out of the statement, so the column keeps what is stored
UpdateSetNothing(row, update) == row

UpdateSet(row, update) ==
  IF update.hostId = Undefined THEN row ELSE [row EXCEPT !.hostId = update.hostId[1]]

\* the foreign key nodes.host_id -> hosts.id (foreign_keys = ON): a statement
\* that would leave a node pointing at no host fails
ForeignKeyFails(hostsTable, row) == row.hostId # 0 /\ row.hostId \notin DOMAIN hostsTable

\* a table without the row of that id
Without(table, id) == [i \in DOMAIN table \ {id} |-> table[i]]

\* a call of linkNodeToHost or unlinkNodeFromHost: where it stands, its
\* arguments, updateNode's update and what was thrown
NoNodeCall ==
  [op |-> "", pc |-> "idle", nodeId |-> 0, hostId |-> 0, update |-> [hostId |-> Undefined],
   error |-> ""]

NoNodeCalls == nodeCall = NoNodeCall

\* the config service as its module leaves it (an empty cache, no call made),
\* over a template store and the tables
ConfigLoaded(stores, nodeTables, hostTables) ==
  /\ templateFiles \in stores
  /\ templateCache = <<>>
  /\ configNodes \in nodeTables
  /\ configHosts \in hostTables
  /\ configCall = NoConfigCall
  /\ configResult = NoConfigResult
  /\ readsSinceReload = {}

\* no template file, no node
NoConfig == ConfigLoaded({<<>>}, {<<>>}, {<<>>})

ConstructedFor(concurrencies, intervals, nodes) ==
  /\ WorkerConstructed(concurrencies, intervals, nodes)
  /\ ProviderLoaded({"part_005"})
  /\ NoProviderCalls
  /\ NoMonitor
  /\ NoConfig
  /\ NoHostCalls
  /\ NoNodeCalls

\* a worker of any configured concurrency, asked to update one node
Constructed(intervals) == ConstructedFor(1..MaxConcurrency, intervals, {1})

Init == Constructed({MaxInterval})

queueVars == <<queue, pending, intervalCount, isPaused, pc, execCount, startedAt>>
configVars == <<concurrency, interval, nodeIds>>
batchVars == <<batch, batchValues, batchResult>>
localVars == <<node, providerResult, providerCalls>>
factoryVars == <<providersModule, cfApiToken, cfZoneId, initCall>>
cfVars == <<cfRecords, cfPc, cfCall, cfLog, cfOverlap>>
monitorVars == <<hosts, monitorConfig, telegramEnabled, diskReports, isRunning,
                 sweepPc, heartbeatCheck, diskCheck, offlineAttempts, diskAttempts,
                 notified, sweepStale, intervalId, lastSweepAt, delivered, liveTimers>>
processVars == <<exited>>
templateVars == <<templateFiles, templateCache, configNodes, configHosts, configCall,
                  configResult, readsSinceReload>>
hostVars == <<hostRows, hostSeq, hostCall>>
nodeVars == <<nodeCall>>
overlapVars == <<overlapSweep>>
restVars == <<factoryVars, cfVars, monitorVars, processVars, templateVars, hostVars, nodeVars, overlapVars>>
dnsVars == <<queueVars, configVars, batchVars, localVars, dnsRecords, nextTask,
             request, result, now, monitorVars, processVars, templateVars, hostVars, nodeVars, overlapVars>>

\* ----------------------------------------------------------------- actions
\* initializeDnsProvider(config): install the provider; when createDnsProvider
\* throws the error is rethrown before the assignment and nothing changes
InitializeDnsProvider ==
  \E config \in ProviderConfigs :
    /\ createDnsProvider(config) # "throw"
    /\ defaultProvider' = createDnsProvider(config)
    /\ UNCHANGED <<queueVars, configVars, restVars, batchVars, localVars, dnsRecords,
                   nextTask, request, result, now>>

\* DnsWorker.addUpdateTask(request)
AddUpdateTask ==
  \E r \in RequestsFor(nextTask) :
    /\ nextTask <= MaxTasks
    /\ request' = [request EXCEPT ![nextTask] = r]
    /\ nextTask' = nextTask + 1
    /\ Commit(Add(QState, nextTask), [pc EXCEPT ![nextTask] = "waiting"])
    /\ UNCHANGED <<configVars, restVars, batchVars, localVars, dnsRecords,
                   defaultProvider, result, now>>

\* DnsWorker.addUpdateTasks(requests)
AddUpdateTasks ==
  \E n \in 0..MaxBatch : \E rs \in [1..n -> OfferedRequests] :
    LET ts == [i \in 1..n |-> nextTask + i - 1]
    IN /\ batchResult.state = "none"
       /\ \A i \in 1..n : rs[i] \in RequestsFor(ts[i])
       /\ nextTask + n - 1 <= MaxTasks
       /\ request' = [t \in Tasks |-> IF InSeq(t, ts) THEN rs[IndexOf(t, ts)] ELSE request[t]]
       /\ nextTask' = nextTask + n
       /\ Commit(AddAll(QState, ts),
                 [t \in Tasks |-> IF InSeq(t, ts) THEN "waiting" ELSE pc[t]])
       /\ batch' = ts
       /\ batchValues' = [i \in 1..n |-> "none"]
       /\ batchResult' = PromiseAllResult([state |-> "pending", values |-> <<>>],
                                          [i \in 1..n |-> "none"], "none")
       /\ UNCHANGED <<configVars, restVars, localVars, dnsRecords, defaultProvider,
                      result, now>>

\* the task body has returned or thrown: run resolves or rejects queue.add's
\* promise, then #next(); addUpdateTask's continuation delivers its boolean.
\* The task's closure (its request) and updateDnsRecord's locals end with it.
Settle(t, outcome) ==
  /\ LET v == AddUpdateTaskResult(outcome)
         values == IF InSeq(t, batch)
                   THEN PromiseAllValues(batchValues, IndexOf(t, batch), v)
                   ELSE batchValues
     IN /\ result' = [result EXCEPT ![t] = v]
        /\ batchValues' = values
        /\ batchResult' = IF InSeq(t, batch)
                          THEN PromiseAllResult(batchResult, values, v)
                          ELSE batchResult
  /\ Commit(RunFinally(QState, t, outcome), [pc EXCEPT ![t] = "settled"])
  /\ node' = [node EXCEPT ![t] = 0]
  /\ providerResult' = [providerResult EXCEPT ![t] = "none"]
  /\ providerCalls' = [providerCalls EXCEPT ![t] = 0]
  /\ request' = [request EXCEPT ![t] = NoRequest]
  /\ UNCHANGED batch

\* updateDnsRecord, lines 80-83: the body has thrown (no provider, or a store
\* read error); the error is logged and rethrown, and queue.add rejects
StepThrow(t) ==
  /\ pc[t] = "throw"
  /\ Settle(t, "throw")
  /\ UNCHANGED <<configVars, restVars, dnsRecords, defaultProvider, nextTask, now>>

\* updateDnsRecord, lines 41-44: the store read throws, or returns and
\* provider.updateRecord is called
StepSelect(t) ==
  /\ pc[t] = "select"
  /\ \E ok \in BOOLEAN :
       IF ok
       THEN /\ node' = [node EXCEPT ![t] = SelectNode(request[t].nodeId)]
            /\ providerCalls' = [providerCalls EXCEPT ![t] = @ + 1]
            /\ pc' = [pc EXCEPT ![t] = "provider"]
       ELSE /\ pc' = [pc EXCEPT ![t] = "throw"]
            /\ UNCHANGED <<node, providerCalls>>
  /\ UNCHANGED <<queue, pending, intervalCount, isPaused, execCount, startedAt,
                 configVars, restVars, batchVars, providerResult, result, request, dnsRecords,
                 defaultProvider, nextTask, now>>

\* updateDnsRecord, lines 44-46 and 79: provider.updateRecord returns success;
\* false is returned at once, true goes on to the store write-back
StepProvider(t) ==
  /\ pc[t] = "provider"
  /\ \E success \in BOOLEAN :
       IF success
       THEN /\ providerResult' = [providerResult EXCEPT ![t] = "true"]
            /\ pc' = [pc EXCEPT ![t] = "write"]
            /\ UNCHANGED <<queue, pending, intervalCount, isPaused, execCount, startedAt,
                           batchVars, node, providerCalls, result, request>>
       ELSE Settle(t, "ret_false")
  /\ UNCHANGED <<configVars, restVars, dnsRecords, defaultProvider, nextTask, now>>

\* updateDnsRecord, lines 47-76: the store write-back, update or insert, then
\* return true; or the write throws, which is logged and rethrown (lines 80-83)
StepWrite(t) ==
  /\ pc[t] = "write"
  /\ \E ok \in BOOLEAN :
       IF ok
       THEN /\ dnsRecords' = IF node[t] > 0
                             THEN UpdateRow(dnsRecords, node[t], request[t])
                             ELSE InsertRow(dnsRecords, request[t])
            /\ Settle(t, "ret_true")
       ELSE /\ Settle(t, "throw")
            /\ UNCHANGED dnsRecords
  /\ UNCHANGED <<configVars, restVars, defaultProvider, nextTask, now>>

\* DnsWorker.pause
Pause ==
  /\ Commit(QueuePause(QState), pc)
  /\ UNCHANGED <<configVars, restVars, batchVars, localVars, dnsRecords,
                 defaultProvider, nextTask, request, result, now>>

\* DnsWorker.start
Start ==
  /\ Commit(QueueStart(QState), pc)
  /\ UNCHANGED <<configVars, restVars, batchVars, localVars, dnsRecords,
                 defaultProvider, nextTask, request, result, now>>

\* DnsWorker.clear
Clear ==
  /\ Commit(QueueClear(QState), pc)
  /\ request' = DropClosures(queue)
  /\ UNCHANGED <<configVars, restVars, batchVars, localVars, dnsRecords,
                 defaultProvider, nextTask, result, now>>

\* shutdownDnsWorker: pause, then clear
ShutdownDnsWorker ==
  /\ Commit(QueueClear(QueuePause(QState)), pc)
  /\ request' = DropClosures(queue)
  /\ UNCHANGED <<configVars, restVars, batchVars, localVars, dnsRecords,
                 defaultProvider, nextTask, result, now>>

\* time passes
Tick ==
  /\ now < MaxTime
  /\ now' = now + 1
  /\ UNCHANGED <<queueVars, configVars, restVars, batchVars, localVars, dnsRecords,
                 defaultProvider, nextTask, request, result>>

Next ==
  \/ InitializeDnsProvider
  \/ AddUpdateTask
  \/ AddUpdateTasks
  \/ \E t \in Tasks : StepThrow(t)
  \/ \E t \in Tasks : StepSelect(t)
  \/ \E t \in Tasks : StepProvider(t)
  \/ \E t \in Tasks : StepWrite(t)
  \/ Pause
  \/ Start
  \/ Clear
  \/ ShutdownDnsWorker

Spec == Init /\ [][Next]_vars

\* The event loop runs every continuation that is ready, and the provider and
\* store calls return: a started body takes its next step.  The queue is not
\* left paused for ever: start() is called.
TaskStep(t) == StepThrow(t) \/ StepSelect(t) \/ StepProvider(t) \/ StepWrite(t)

FairSpec ==
  /\ Init
  /\ [][Next]_vars
  /\ \A t \in Tasks : WF_vars(TaskStep(t))
  /\ WF_vars(Start)

\* the same program with the clock running and every interval
TimedInit == Constructed(1..MaxInterval)

TimedNext == Next \/ Tick

TimedSpec == TimedInit /\ [][TimedNext]_vars

\* the SIGINT and SIGTERM handlers: process.exit(0), which ends the process
\* where it stands
Sigint ==
  /\ ~exited
  /\ exited' = TRUE
  /\ UNCHANGED <<queueVars, configVars, batchVars, localVars, dnsRecords,
                 defaultProvider, nextTask, request, result, now, factoryVars, cfVars,
                 monitorVars, templateVars, hostVars, nodeVars, overlapVars>>

\* the same program until a signal ends it
ExitNext ==
  \/ ~exited /\ Next
  \/ Sigint

ExitSpec == Init /\ [][ExitNext]_vars

\* the worker as getDnsWorker builds it by default (concurrency 1), asked to
\* update several nodes
StoreInit == ConstructedFor({1}, {MaxInterval}, 1..MaxNodes)

StoreSpec == StoreInit /\ [][Next]_vars


\* -------------------------------------------------------- provider factory
\* the createDnsProvider that the import of './providers' resolves to: the
\* sources hold two copies of the factory
CreateProvider(config) ==
  IF providersModule = "part_005"
  THEN createDnsProvider(config)
  ELSE createDnsProviderUnchecked(config)

\* initializeDnsProvider(config), whatever the config: the provider is
\* assigned when createDnsProvider returns; when it throws, the catch clause
\* logs and rethrows and defaultProvider keeps its value
InitializeDnsProviderCall ==
  \E config \in ZoneConfigs :
    /\ IF CreateProvider(config) = "throw"
       THEN /\ initCall' = [config |-> config, outcome |-> "threw"]
            /\ UNCHANGED <<defaultProvider, cfApiToken, cfZoneId>>
       ELSE /\ initCall' = [config |-> config, outcome |-> "returned"]
            /\ defaultProvider' = CreateProvider(config)
            /\ cfApiToken' = config.apiKey
            /\ cfZoneId' = config.zoneId
    /\ UNCHANGED <<providersModule, cfVars, dnsVars>>

FactoryInit ==
  /\ WorkerConstructed({1}, {MaxInterval}, {1})
  /\ ProviderLoaded({"part_005", "config_service"})
  /\ NoProviderCalls
  /\ NoMonitor
  /\ NoConfig
  /\ NoHostCalls
  /\ NoNodeCalls

FactoryNext == InitializeDnsProviderCall

FactorySpec == FactoryInit /\ [][FactoryNext]_vars

\* ------------------------------------------------------ Cloudflare provider
\* what a returned call leaves in the log: its arguments, whether one of its
\* requests failed, the write it issued (to which record id, and whether the
\* vendor accepted it), and what it returned
LogEntry(call, failed, write, id, accepted, ret) ==
  [op |-> call.op, domain |-> call.domain, type |-> call.type, value |-> call.value,
   failed |-> failed, write |-> write, id |-> id, accepted |-> accepted, ret |-> ret]

\* the call returns to its caller
Return(entry) ==
  /\ cfLog' = Append(cfLog, entry)
  /\ cfPc' = "idle"
  /\ cfCall' = NoCall

\* updateRecord and getRecord up to their first await: `this.zoneId ||
\* (await this.getZoneId(domain))`, so with a configured zone id the first
\* request is findRecord's.  Calls are made one at a time.
CallProvider(op, domain, type, value) ==
  /\ cfPc = "idle"
  /\ defaultProvider # "null"
  /\ Len(cfLog) < MaxCalls
  /\ cfCall' = [op |-> op, domain |-> domain, type |-> type, value |-> value,
                zoneId |-> cfZoneId, existing |-> 0, failed |-> FALSE]
  /\ cfPc' = IF cfZoneId # "" THEN "find" ELSE "zone"
  /\ UNCHANGED <<cfRecords, cfLog, factoryVars, defaultProvider, dnsVars, cfOverlap>>

\* CloudflareProvider.updateRecord(domain, type, value)
updateRecord ==
  \E domain \in Domains, type \in RecordTypes, value \in Values :
    CallProvider("updateRecord", domain, type, value)

\* CloudflareProvider.getRecord(domain, type)
getRecord ==
  \E domain \in Domains, type \in RecordTypes :
    CallProvider("getRecord", domain, type, "")

\* getZoneId returns.  Without a zone id updateRecord throws 'Could not
\* determine zone ID' into its own catch clause and returns false; getRecord
\* returns null.
GetZoneIdReturns ==
  /\ cfPc = "zone"
  /\ \E outcome \in Outcomes :
       LET zoneId == getZoneId(cfCall.domain, outcome)
       IN IF zoneId = ""
          THEN /\ Return(LogEntry(cfCall, outcome # "ok", "none", 0, FALSE,
                                  IF cfCall.op = "updateRecord" THEN "false" ELSE "null"))
          ELSE /\ cfCall' = [cfCall EXCEPT !.zoneId = zoneId, !.failed = outcome # "ok"]
               /\ cfPc' = "find"
               /\ UNCHANGED cfLog
  /\ UNCHANGED <<cfRecords, factoryVars, defaultProvider, dnsVars, cfOverlap>>

\* findRecord returns.  getRecord returns `record?.content || null`;
\* updateRecord goes on to update the record found, or to create one when
\* findRecord returned null.
FindRecordReturns ==
  /\ cfPc = "find"
  /\ \E outcome \in Outcomes :
       \E id \in findRecord(cfRecords, cfCall.zoneId, cfCall.domain, cfCall.type, outcome) :
         LET failed == cfCall.failed \/ outcome # "ok"
         IN IF cfCall.op = "getRecord"
            THEN Return(LogEntry(cfCall, failed, "none", id, FALSE,
                                 IF id = 0 \/ cfRecords[id].content = ""
                                 THEN "null" ELSE cfRecords[id].content))
            ELSE /\ cfCall' = [cfCall EXCEPT !.existing = id, !.failed = failed]
                 /\ cfPc' = "write"
                 /\ UNCHANGED cfLog
  /\ UNCHANGED <<cfRecords, factoryVars, defaultProvider, dnsVars, cfOverlap>>

\* updateExistingRecord or createNewRecord returns or throws: updateRecord
\* returns true, or false from its catch clause
WriteReturns ==
  /\ cfPc = "write"
  /\ \E outcome \in Outcomes :
       /\ cfRecords' =
            IF cfCall.existing # 0
            THEN updateExistingRecord(cfRecords, cfCall.existing, cfCall.value, outcome)
            ELSE createNewRecord(cfRecords, cfCall.zoneId, cfCall.domain, cfCall.type,
                                 cfCall.value, outcome)
       /\ Return(LogEntry(cfCall, cfCall.failed \/ outcome # "ok",
                          IF cfCall.existing # 0 THEN "update" ELSE "create",
                          IF cfCall.existing # 0 THEN cfCall.existing
                          ELSE IF outcome = "ok" THEN Len(cfRecords) + 1 ELSE 0,
                          outcome = "ok",
                          IF WriteThrows(outcome) THEN "false" ELSE "true"))
  /\ UNCHANGED <<factoryVars, defaultProvider, dnsVars, cfOverlap>>

\* a CloudflareProvider installed by initializeDnsProvider, with and without
\* a configured zone id, and a vendor account that holds no record yet
CfInit ==
  /\ WorkerConstructed({1}, {MaxInterval}, {1})
  /\ ProviderInstalled({"", "z1"})
  /\ NoProviderCalls
  /\ NoMonitor
  /\ NoConfig
  /\ NoHostCalls
  /\ NoNodeCalls

CfNext ==
  \/ updateRecord
  \/ getRecord
  \/ GetZoneIdReturns
  \/ FindRecordReturns
  \/ WriteReturns

CfSpec == CfInit /\ [][CfNext]_vars

\* ------------------------------------------- overlapping provider calls
\* the overlapping call returns to its caller
OverlapReturn(entry) ==
  /\ cfLog' = Append(cfLog, entry)
  /\ cfOverlap' = NoOverlap

\* a second task body calls provider.updateRecord while the first task's call
\* is in progress: PQueue runs two bodies at once only with concurrency > 1
OverlapCalled(domain, type, value) ==
  /\ concurrency > 1
  /\ cfPc # "idle"
  /\ cfOverlap.pc = "idle"
  /\ Len(cfLog) + 1 < MaxCalls
  /\ cfOverlap' = [pc |-> IF cfZoneId # "" THEN "find" ELSE "zone",
                   call |-> [op |-> "updateRecord", domain |-> domain, type |-> type,
                             value |-> value, zoneId |-> cfZoneId, existing |-> 0,
                             failed |-> FALSE]]
  /\ UNCHANGED <<cfRecords, cfPc, cfCall, cfLog, factoryVars, defaultProvider, dnsVars>>

\* the overlapping call's getZoneId returns
OverlapGetZoneIdReturns ==
  /\ cfOverlap.pc = "zone"
  /\ \E outcome \in Outcomes :
       LET zoneId == getZoneId(cfOverlap.call.domain, outcome)
       IN IF zoneId = ""
          THEN OverlapReturn(LogEntry(cfOverlap.call, outcome # "ok", "none", 0, FALSE,
                                      "false"))
          ELSE /\ cfOverlap' = [cfOverlap EXCEPT !.pc = "find", !.call.zoneId = zoneId,
                                                 !.call.failed = outcome # "ok"]
               /\ UNCHANGED cfLog
  /\ UNCHANGED <<cfRecords, cfPc, cfCall, factoryVars, defaultProvider, dnsVars>>

\* the overlapping call's findRecord returns
OverlapFindRecordReturns ==
  /\ cfOverlap.pc = "find"
  /\ \E outcome \in Outcomes :
       \E id \in findRecord(cfRecords, cfOverlap.call.zoneId, cfOverlap.call.domain,
                            cfOverlap.call.type, outcome) :
         cfOverlap' = [cfOverlap EXCEPT !.pc = "write", !.call.existing = id,
                                        !.call.failed = @ \/ outcome # "ok"]
  /\ UNCHANGED <<cfRecords, cfPc, cfCall, cfLog, factoryVars, defaultProvider, dnsVars>>

\* the overlapping call's updateExistingRecord or createNewRecord returns or
\* throws
OverlapWriteReturns ==
  /\ cfOverlap.pc = "write"
  /\ \E outcome \in Outcomes :
       LET call == cfOverlap.call
       IN /\ cfRecords' =
               IF call.existing # 0
               THEN updateExistingRecord(cfRecords, call.existing, call.value, outcome)
               ELSE createNewRecord(cfRecords, call.zoneId, call.domain, call.type,
                                    call.value, outcome)
          /\ OverlapReturn(LogEntry(call, call.failed \/ outcome # "ok",
                                    IF call.existing # 0 THEN "update" ELSE "create",
                                    IF call.existing # 0 THEN call.existing
                                    ELSE IF outcome = "ok" THEN Len(cfRecords) + 1 ELSE 0,
                                    outcome = "ok",
                                    IF WriteThrows(outcome) THEN "false" ELSE "true"))
  /\ UNCHANGED <<cfPc, cfCall, factoryVars, defaultProvider, dnsVars>>

\* a worker of any configured concurrency over an installed provider, with
\* and without a configured zone id, and a vendor account that holds no
\* record yet
RaceInit ==
  /\ WorkerConstructed(1..MaxConcurrency, {MaxInterval}, {1})
  /\ ProviderInstalled({"", "z1"})
  /\ NoProviderCalls
  /\ NoMonitor
  /\ NoConfig
  /\ NoHostCalls
  /\ NoNodeCalls

\* the task bodies' updateRecord calls for one (domain, type), overlapping
\* when the queue lets them
RaceNext ==
  \/ \E value \in Values : CallProvider("updateRecord", HostName, "A", value)
  \/ GetZoneIdReturns
  \/ FindRecordReturns
  \/ WriteReturns
  \/ \E value \in Values : OverlapCalled(HostName, "A", value)
  \/ OverlapGetZoneIdReturns
  \/ OverlapFindRecordReturns
  \/ OverlapWriteReturns

RaceSpec == RaceInit /\ [][RaceNext]_vars

\* ----------------------------------------------------------------- monitor
otherVars == <<queueVars, configVars, batchVars, localVars, dnsRecords, nextTask,
               request, result, defaultProvider, factoryVars, cfVars, processVars,
               templateVars, hostVars, nodeVars, overlapVars>>

\* runCheck up to its first await: checkHostHeartbeats has called getHosts
RunCheck ==
  /\ sweepPc' = "heartbeats"
  /\ heartbeatCheck' = "none"
  /\ diskCheck' = "none"
  /\ offlineAttempts' = NoCalls
  /\ diskAttempts' = NoCalls
  /\ sweepStale' = {}
  /\ lastSweepAt' = now
  /\ delivered' = [name \in HostNames |-> "none"]

\* MonitorWorker.start: a no-op when running; else the first sweep is run at
\* once and the timer is set
MonitorStart ==
  /\ sweepPc = "idle"
  /\ IF isRunning
     THEN UNCHANGED <<isRunning, sweepPc, heartbeatCheck, diskCheck, offlineAttempts,
                      diskAttempts, sweepStale, intervalId, lastSweepAt, delivered,
                      liveTimers>>
     ELSE /\ isRunning' = TRUE
          /\ RunCheck
          /\ intervalId' = NextDue(now, monitorConfig.checkInterval)
          /\ liveTimers' = SetInterval(liveTimers)
  /\ UNCHANGED <<hosts, monitorConfig, telegramEnabled, diskReports, notified,
                 otherVars, now>>

\* MonitorWorker.stop: a no-op when not running; else the timer is cleared; a
\* sweep in progress goes on
MonitorStop ==
  /\ IF isRunning
     THEN /\ isRunning' = FALSE
          /\ intervalId' = Null
          /\ liveTimers' = IF intervalId # Null THEN ClearInterval(liveTimers)
                                                ELSE liveTimers
     ELSE UNCHANGED <<isRunning, intervalId, liveTimers>>
  /\ UNCHANGED <<hosts, monitorConfig, telegramEnabled, diskReports, sweepPc,
                 heartbeatCheck, diskCheck, offlineAttempts, diskAttempts, notified,
                 sweepStale, lastSweepAt, delivered, otherVars, now>>

\* the setInterval callback of a timer that is set, when it is due: the next
\* sweep, and the timer is due again an interval later.  The sweep before it
\* has ended (checkInterval is a minute).
TimerFires ==
  /\ liveTimers > 0
  /\ sweepPc = "idle"
  /\ intervalId # Null /\ intervalId <= now
  /\ RunCheck
  /\ intervalId' = NextDue(now, monitorConfig.checkInterval)
  /\ UNCHANGED <<hosts, monitorConfig, telegramEnabled, diskReports, isRunning,
                 notified, liveTimers, otherVars, now>>

\* checkHostHeartbeats, lines 101-122: getHosts returns or throws, then the
\* loop over the list it returned.  The loop reads the list and the clock
\* taken at line 103 only, so its awaits do not change what it does.  An
\* exception ends the method in its catch clause, before markOfflineHosts.
CheckHostHeartbeats ==
  /\ sweepPc = "heartbeats"
  /\ \E read \in BOOLEAN :
       IF read
       THEN \E list \in GetHosts, outcomes \in [HostNames -> SendOutcomes] :
              LET loop == HeartbeatLoop(list, now, NoCalls)
              IN /\ offlineAttempts' = loop.calls
                 /\ delivered' = Delivered(loop.calls, outcomes)
                 /\ notified' = [name \in HostNames |->
                                   notified[name] \/ loop.calls[name] > 0]
                 /\ sweepStale' = {name \in HostNames :
                                     /\ hosts[name].status # "offline"
                                     /\ IsStale(hosts[name], now)}
                 /\ heartbeatCheck' = IF loop.threw THEN "aborted" ELSE "done"
                 /\ sweepPc' = IF loop.threw THEN "disk" ELSE "mark"
       ELSE /\ heartbeatCheck' = "unread"
            /\ sweepPc' = "disk"
            /\ UNCHANGED <<offlineAttempts, notified, sweepStale, delivered>>
  /\ UNCHANGED <<hosts, monitorConfig, telegramEnabled, diskReports, isRunning,
                 diskCheck, diskAttempts, intervalId, lastSweepAt, liveTimers, otherVars,
                 now>>

\* checkHostHeartbeats, line 124: markOfflineHosts(hostHeartbeatTimeout), with
\* its own reading of the clock; a store error is logged and rethrown into
\* checkHostHeartbeats' catch clause
MarkOfflineHosts ==
  /\ sweepPc = "mark"
  /\ \E ok \in BOOLEAN :
       IF ok
       THEN /\ hosts' = MarkOffline(hosts, monitorConfig.hostHeartbeatTimeout, now)
            /\ heartbeatCheck' = "marked"
       ELSE /\ heartbeatCheck' = "markfailed"
            /\ UNCHANGED hosts
  /\ sweepPc' = "disk"
  /\ UNCHANGED <<monitorConfig, telegramEnabled, diskReports, isRunning, diskCheck,
                 offlineAttempts, diskAttempts, notified, sweepStale, intervalId, liveTimers,
                 lastSweepAt, delivered, otherVars, now>>

\* checkDiskSpace: getHosts returns or throws, then the loop; logStatistics,
\* which changes nothing, ends the sweep
CheckDiskSpace ==
  /\ sweepPc = "disk"
  /\ \E read \in BOOLEAN :
       IF read
       THEN \E list \in GetHosts :
              /\ diskAttempts' = DiskLoop(list, NoCalls)
              /\ diskCheck' = "done"
       ELSE /\ diskCheck' = "unread"
            /\ UNCHANGED diskAttempts
  /\ sweepPc' = "idle"
  /\ UNCHANGED <<hosts, monitorConfig, telegramEnabled, diskReports, isRunning,
                 heartbeatCheck, offlineAttempts, notified, sweepStale, intervalId, liveTimers,
                 lastSweepAt, delivered, otherVars, now>>

\* processHeartbeat for a stored host: the row becomes online, with the
\* reported values and lastHeartbeat = now
ProcessHeartbeat(name) ==
  /\ \E used \in diskReports :
       hosts' = [hosts EXCEPT ![name] = [@ EXCEPT !.status = "online",
                                                  !.lastHeartbeat = now,
                                                  !.diskUsed = used]]
  /\ notified' = [notified EXCEPT ![name] = FALSE]
  /\ sweepStale' = sweepStale \ {name}
  /\ UNCHANGED <<monitorConfig, telegramEnabled, diskReports, isRunning, sweepPc,
                 heartbeatCheck, diskCheck, offlineAttempts, diskAttempts, intervalId, liveTimers,
                 lastSweepAt, delivered, otherVars, now>>

\* hosts of any stored status, with a heartbeat at the start of the clock, an
\* earlier one, a missing one or a malformed one
MonitorInit ==
  /\ WorkerConstructed({1}, {MaxInterval}, {1})
  /\ ProviderLoaded({"part_005"})
  /\ NoProviderCalls
  /\ MonitorConstructed(HostNames, [status : {"online", "offline", "unknown"},
                         lastHeartbeat : {Null, BeforeDates, Earlier, 0},
                         diskTotal : {100}, diskUsed : {95}],
                        {HeartbeatTimeout}, {CheckInterval}, BOOLEAN, {TRUE}, BOOLEAN,
                        {95})
  /\ NoConfig
  /\ NoHostCalls
  /\ NoNodeCalls

MonitorNext ==
  \/ MonitorStart
  \/ MonitorStop
  \/ TimerFires
  \/ CheckHostHeartbeats
  \/ MarkOfflineHosts
  \/ CheckDiskSpace
  \/ \E name \in HostNames : ProcessHeartbeat(name)
  \/ Tick

MonitorSpec == MonitorInit /\ [][MonitorNext]_vars

\* online hosts that stay fresh, with any disk values
DiskInit ==
  /\ WorkerConstructed({1}, {MaxInterval}, {1})
  /\ ProviderLoaded({"part_005"})
  /\ NoProviderCalls
  /\ MonitorConstructed(HostNames, [status : {"online"}, lastHeartbeat : {0},
                         diskTotal : DiskTotals,
                         diskUsed : {Null} \cup DiskUsedValues],
                        {MaxTime}, {CheckInterval}, {TRUE}, BOOLEAN, BOOLEAN,
                        DiskUsedValues)
  /\ NoConfig
  /\ NoHostCalls
  /\ NoNodeCalls

DiskSpec == DiskInit /\ [][MonitorNext]_vars

\* ------------------------------------------------------- overlapping sweeps
\* what a step of the sweep begun during another leaves alone, but for the
\* hosts table, `notified`, the timer and overlapSweep itself
sweepLocals == <<monitorConfig, telegramEnabled, diskReports, isRunning, sweepPc,
                 heartbeatCheck, diskCheck, offlineAttempts, diskAttempts, sweepStale,
                 delivered, liveTimers, queueVars, configVars, batchVars, localVars,
                 dnsRecords, nextTask, request, result, defaultProvider, factoryVars,
                 cfVars, processVars, templateVars, hostVars, nodeVars, now>>

\* the setInterval callback, when the timer is due and the sweep before it
\* has not ended: runCheck is called all the same, up to its first await
TimerFiresDuringSweep ==
  /\ liveTimers > 0
  /\ sweepPc # "idle"
  /\ overlapSweep.pc = "idle"
  /\ intervalId # Null /\ intervalId <= now
  /\ overlapSweep' = [NoSweep EXCEPT !.pc = "heartbeats"]
  /\ lastSweepAt' = now
  /\ intervalId' = NextDue(now, monitorConfig.checkInterval)
  /\ UNCHANGED <<hosts, notified, sweepLocals>>

\* checkHostHeartbeats of that sweep, lines 101-122: getHosts returns or
\* throws, then the loop over the list; `seen` is the lastHeartbeat each
\* notifyHostOffline call was given
OverlapCheckHostHeartbeats ==
  /\ overlapSweep.pc = "heartbeats"
  /\ \E read \in BOOLEAN :
       IF read
       THEN \E list \in GetHosts :
              LET loop == HeartbeatLoop(list, now, NoCalls)
              IN /\ overlapSweep' =
                      [pc |-> IF loop.threw THEN "disk" ELSE "mark",
                       calls |-> loop.calls,
                       seen |-> [name \in HostNames |->
                                   IF loop.calls[name] > 0
                                   THEN LastHeartbeat(hosts[name]) ELSE Null]]
                 /\ notified' = [name \in HostNames |->
                                   notified[name] \/ loop.calls[name] > 0]
       ELSE /\ overlapSweep' = [overlapSweep EXCEPT !.pc = "disk"]
            /\ UNCHANGED notified
  /\ UNCHANGED <<hosts, intervalId, lastSweepAt, sweepLocals>>

\* checkHostHeartbeats of that sweep, line 124: markOfflineHosts
OverlapMarkOfflineHosts ==
  /\ overlapSweep.pc = "mark"
  /\ \E ok \in BOOLEAN :
       IF ok
       THEN hosts' = MarkOffline(hosts, monitorConfig.hostHeartbeatTimeout, now)
       ELSE UNCHANGED hosts
  /\ overlapSweep' = [overlapSweep EXCEPT !.pc = "disk"]
  /\ UNCHANGED <<notified, intervalId, lastSweepAt, sweepLocals>>

\* checkDiskSpace and logStatistics of that sweep, which change nothing in
\* the store, end it
OverlapCheckDiskSpace ==
  /\ overlapSweep.pc = "disk"
  /\ overlapSweep' = NoSweep
  /\ UNCHANGED <<hosts, notified, intervalId, lastSweepAt, sweepLocals>>

\* online hosts with a heartbeat at the start of the clock or an earlier one,
\* and a monitor that notifies
OverlapInit ==
  /\ WorkerConstructed({1}, {MaxInterval}, {1})
  /\ ProviderLoaded({"part_005"})
  /\ NoProviderCalls
  /\ MonitorConstructed(HostNames, [status : {"online"}, lastHeartbeat : {Earlier, 0},
                         diskTotal : {100}, diskUsed : {95}],
                        {HeartbeatTimeout}, {CheckInterval}, {TRUE}, {TRUE}, {TRUE},
                        {95})
  /\ NoConfig
  /\ NoHostCalls
  /\ NoNodeCalls

OverlapNext ==
  \/ MonitorNext
  \/ TimerFiresDuringSweep
  \/ OverlapCheckHostHeartbeats
  \/ OverlapMarkOfflineHosts
  \/ OverlapCheckDiskSpace

OverlapSpec == OverlapInit /\ [][OverlapNext]_vars

\* ------------------------------------------------------------ config module
nonTemplateVars == <<queueVars, configVars, batchVars, localVars, dnsRecords, nextTask,
                     request, result, defaultProvider, now, factoryVars, cfVars,
                     monitorVars, processVars, hostVars, nodeVars, overlapVars>>

\* generateConfig from the template body on: getNodeContext throws for a node
\* that is not stored, else the body is rendered and returned
Render(req, body) ==
  /\ configResult' =
       IF req.nodeId \in DOMAIN configNodes
       THEN [request |-> req, outcome |-> "returned", template |-> body,
             config |-> replaceVariables(body,
                          getNodeContext(configNodes, configHosts, req.nodeId))]
       ELSE [request |-> req, outcome |-> "node_not_found", template |-> body,
             config |-> <<>>]
  /\ configCall' = NoConfigCall

\* generateConfig(request) up to loadTemplate's await: with the body in the
\* cache the call goes on to its end, else readFile is called
GenerateConfig(req) ==
  /\ configCall.pc = "idle"
  /\ IF TemplateKey(req) \in DOMAIN templateCache
     THEN /\ Render(req, templateCache[TemplateKey(req)])
          /\ UNCHANGED readsSinceReload
     ELSE /\ configCall' = [pc |-> "reading", request |-> req, content |-> <<>>]
          /\ UNCHANGED <<configResult, readsSinceReload>>
  /\ UNCHANGED <<templateFiles, templateCache, configNodes, configHosts,
                 nonTemplateVars>>

\* fs.readFile reads the file as it is now, or fails (no such file, or any
\* other error)
ReadFile ==
  /\ configCall.pc = "reading"
  /\ \E ok \in BOOLEAN :
       IF ok /\ TemplateKey(configCall.request) \in DOMAIN templateFiles
       THEN configCall' = [configCall EXCEPT
                             !.pc = "read",
                             !.content = templateFiles[TemplateKey(configCall.request)]]
       ELSE configCall' = [configCall EXCEPT !.pc = "failed"]
  /\ readsSinceReload' = readsSinceReload \cup {TemplateKey(configCall.request)}
  /\ UNCHANGED <<templateFiles, templateCache, configNodes, configHosts, configResult,
                 nonTemplateVars>>

\* loadTemplate after its await: the body is cached and generateConfig goes
\* on, or 'Template not found' is thrown and generateConfig rethrows it
LoadTemplateResumes ==
  /\ configCall.pc \in {"read", "failed"}
  /\ templateCache' = CacheSet(templateCache, TemplateKey(configCall.request),
                               [ok |-> configCall.pc = "read",
                                content |-> configCall.content])
  /\ IF configCall.pc = "read"
     THEN Render(configCall.request, configCall.content)
     ELSE /\ configResult' = [request |-> configCall.request,
                              outcome |-> "template_not_found",
                              template |-> <<>>, config |-> <<>>]
          /\ configCall' = NoConfigCall
  /\ UNCHANGED <<templateFiles, configNodes, configHosts, readsSinceReload,
                 nonTemplateVars>>

\* reloadTemplates: templateCache.clear()
ReloadTemplates ==
  /\ templateCache' = <<>>
  /\ readsSinceReload' = {}
  /\ UNCHANGED <<templateFiles, configNodes, configHosts, configCall, configResult,
                 nonTemplateVars>>

\* the pieces templates are made of: a placeholder, other text, and the two
\* halves of a placeholder that a template may hold apart
Pieces ==
  {Placeholder(key) : key \in KeyNames} \cup {<<"x">>, <<"{{">>, <<"NODE_ID", "}}">>}

RECURSIVE Concat(_)
Concat(pieces) == IF pieces = <<>> THEN <<>> ELSE Head(pieces) \o Concat(Tail(pieces))

\* the template bodies of up to MaxPieces pieces
Templates == {Concat(pieces) : pieces \in UNION {[1..n -> Pieces] : n \in 0..MaxPieces}}

\* the host a node may be linked to, with and without its optional columns
LinkedHostId == 7
HostRows ==
  {[ip |-> <<"10.0.0.7">>, ipv6 |-> <<>>, region |-> <<>>],
   [ip |-> <<"10.0.0.7">>, ipv6 |-> <<"fd00::7">>, region |-> <<"hk">>]}

\* the stored nodes that are rendered: an ordinary node with any additional
\* ports, linked to a host or not, and nodes whose name or domain is itself
\* placeholder text, or whose domain is missing
NodeRows ==
  [id : {1}, name : {<<"node-1">>}, domain : {<<"a.example.com">>}, port : {443},
   additionalPorts : {<<>>, <<"8443">>, <<"8443", " 8444">>},
   proxyType : {<<"vless">>}, hostId : {0, LinkedHostId}]
  \cup
  [id : {1}, name : {<<"node-1">>, Placeholder("DOMAIN")},
   domain : {<<>>, Placeholder("NODE_ID"), Placeholder("PORT")}, port : {443},
   additionalPorts : {<<"8443">>}, proxyType : {<<"vless">>}, hostId : {0}]

DefaultXray == [nodeId |-> 1, configType |-> "xray", template |-> ""]

\* the default xray template has been loaded, and node 1 is stored
RenderInit ==
  /\ WorkerConstructed({1}, {MaxInterval}, {1})
  /\ ProviderLoaded({"part_005"})
  /\ NoProviderCalls
  /\ NoMonitor
  /\ NoHostCalls
  /\ NoNodeCalls
  /\ templateFiles \in {[k \in {TemplateKey(DefaultXray)} |-> body] : body \in Templates}
  /\ templateCache = templateFiles
  /\ configNodes \in {[i \in {1} |-> row] : row \in NodeRows}
  /\ configHosts \in {<<>>} \cup {[i \in {LinkedHostId} |-> row] : row \in HostRows}
  /\ configNodes[1].hostId = 0 => configHosts = <<>>
  /\ configCall = NoConfigCall
  /\ configResult = NoConfigResult
  /\ readsSinceReload = {TemplateKey(DefaultXray)}

RenderNext == GenerateConfig(DefaultXray)

RenderSpec == RenderInit /\ [][RenderNext]_vars

\* the template files of the store, and the bodies they may hold
TemplateKeys == {<<"xray", "default">>, <<"nginx", "default">>}
Bodies == {<<"v1", "{{", "DOMAIN", "}}">>, <<"v2">>}

\* the requests made: either config type, the default template by name or by
\* omission, for node 1 and for a node that is not stored
ConfigRequests == [nodeId : {1, 2}, configType : {"xray", "nginx"}, template : {"", "default"}]

\* a template file is written, or written anew, outside the service
WriteTemplate(key, body) ==
  /\ templateFiles' = [k \in DOMAIN templateFiles \cup {key} |->
                         IF k = key THEN body ELSE templateFiles[k]]
  /\ UNCHANGED <<templateCache, configNodes, configHosts, configCall, configResult,
                 readsSinceReload, nonTemplateVars>>

\* a store that holds any of the template files, and node 1
ConfigInit ==
  /\ WorkerConstructed({1}, {MaxInterval}, {1})
  /\ ProviderLoaded({"part_005"})
  /\ NoProviderCalls
  /\ NoMonitor
  /\ NoHostCalls
  /\ NoNodeCalls
  /\ ConfigLoaded(UNION {[keys -> Bodies] : keys \in SUBSET TemplateKeys},
                  {[i \in {1} |-> [id |-> 1, name |-> <<"node-1">>,
                                   domain |-> <<"a.example.com">>, port |-> 443,
                                   additionalPorts |-> <<"8443">>,
                                   proxyType |-> <<"vless">>, hostId |-> 0]]},
                  {<<>>})

ConfigNext ==
  \/ \E req \in ConfigRequests : GenerateConfig(req)
  \/ ReadFile
  \/ LoadTemplateResumes
  \/ ReloadTemplates
  \/ \E key \in TemplateKeys, body \in Bodies : WriteTemplate(key, body)

ConfigSpec == ConfigInit /\ [][ConfigNext]_vars

\* the clock of a process whose event loop is free: the timer callback runs
\* when it is due, before more time passes
TimerTick ==
  /\ intervalId = Null \/ now < intervalId
  /\ Tick

\* the check intervals of the monitors whose timing is looked at
CheckIntervals == {1, 2}

\* monitors of either check interval over hosts that are stale from the start
CadenceInit ==
  /\ WorkerConstructed({1}, {MaxInterval}, {1})
  /\ ProviderLoaded({"part_005"})
  /\ NoProviderCalls
  /\ MonitorConstructed(HostNames, [status : {"online", "offline"},
                         lastHeartbeat : {Earlier}, diskTotal : {100}, diskUsed : {95}],
                        {HeartbeatTimeout}, CheckIntervals, {TRUE}, {TRUE}, BOOLEAN,
                        {95})
  /\ NoConfig
  /\ NoHostCalls
  /\ NoNodeCalls

CadenceNext ==
  \/ MonitorStart
  \/ MonitorStop
  \/ TimerFires
  \/ CheckHostHeartbeats
  \/ MarkOfflineHosts
  \/ CheckDiskSpace
  \/ TimerTick

CadenceSpec == CadenceInit /\ [][CadenceNext]_vars

\* ------------------------------------------------------------ host service
nonHostVars == <<queueVars, configVars, batchVars, localVars, dnsRecords, nextTask,
                 request, result, defaultProvider, factoryVars, cfVars, monitorVars,
                 processVars, templateVars, nodeVars, overlapVars>>

\* the calls that have not settled
InFlight == {c \in HostCalls : hostCall[c].pc \notin {"idle", "returned", "threw"}}

\* the calls are alike: a new call is call c when c is the first that is free
Free(c) ==
  /\ hostCall[c].pc = "idle"
  /\ \A d \in HostCalls : d < c => hostCall[d].pc # "idle"

\* createHost(hostInfo) is called: it awaits getHostByName
CreateHostCalled(c, info) ==
  /\ Free(c)
  /\ hostSeq + Cardinality(InFlight) < MaxHostIds
  /\ hostCall' = [hostCall EXCEPT ![c] = [NoHostCall EXCEPT !.op = "createHost",
                                                            !.pc = "check",
                                                            !.info = info]]
  /\ UNCHANGED <<hostRows, hostSeq, now, nonHostVars>>

\* processHeartbeat(heartbeat) is called: it awaits getHostByName
ProcessHeartbeatCalled(c, name) ==
  /\ Free(c)
  /\ hostSeq + Cardinality(InFlight) < MaxHostIds
  /\ hostCall' = [hostCall EXCEPT ![c] = [NoHostCall EXCEPT !.op = "processHeartbeat",
                                                            !.pc = "lookup",
                                                            !.info = HeartbeatInfo(name)]]
  /\ UNCHANGED <<hostRows, hostSeq, now, nonHostVars>>

\* processHeartbeat's getHostByName answers: without a host createHost is
\* called with the heartbeat (it awaits its own getHostByName), with one the
\* update by the host's id is issued
HeartbeatLookup(c) ==
  /\ hostCall[c].pc = "lookup"
  /\ LET host == getHostByName(hostRows, hostCall[c].info.name)
     IN  hostCall' = [hostCall EXCEPT ![c].pc = IF host = NoHost THEN "check" ELSE "update",
                                      ![c].host = host.id]
  /\ UNCHANGED <<hostRows, hostSeq, now, nonHostVars>>

\* createHost's getHostByName answers: an existing host makes it throw, else
\* the insert is issued
CreateCheck(c) ==
  /\ hostCall[c].pc = "check"
  /\ hostCall' =
       IF getHostByName(hostRows, hostCall[c].info.name) # NoHost
       THEN [hostCall EXCEPT ![c].pc = "threw", ![c].error = "already exists"]
       ELSE [hostCall EXCEPT ![c].pc = "insert"]
  /\ UNCHANGED <<hostRows, hostSeq, now, nonHostVars>>

\* createHost's insert ... returning: the row gets the next id, unless the
\* UNIQUE constraint of hosts.name fails the statement; the catch clause
\* rethrows, and so does processHeartbeat's
CreateInsert(c) ==
  /\ hostCall[c].pc = "insert"
  /\ IF UniqueViolated(hostRows, hostCall[c].info.name)
     THEN /\ hostCall' = [hostCall EXCEPT ![c].pc = "threw", ![c].error = "constraint"]
          /\ UNCHANGED <<hostRows, hostSeq>>
     ELSE LET created == NewHost(hostSeq + 1, hostCall[c].info, now)
          IN  /\ hostRows' = hostRows \cup {created}
              /\ hostSeq' = hostSeq + 1
              /\ hostCall' = [hostCall EXCEPT ![c].pc = "returned", ![c].host = created.id]
  /\ UNCHANGED <<now, nonHostVars>>

\* processHeartbeat's update ... where id = host.id returning, and
\* `return result[0]`: undefined when no row has the id any more
HeartbeatUpdate(c) ==
  /\ hostCall[c].pc = "update"
  /\ hostRows' = UpdateOnline(hostRows, hostCall[c].host, now)
  /\ hostCall' =
       [hostCall EXCEPT
          ![c].pc = "returned",
          ![c].host = IF \E r \in hostRows : r.id = hostCall[c].host
                      THEN hostCall[c].host
                      ELSE 0]
  /\ UNCHANGED <<hostSeq, now, nonHostVars>>

\* deleteHost(id): delete ... where id = ? returning, one statement
DeleteHost(id) ==
  /\ \E r \in hostRows : r.id = id
  /\ hostRows' = {r \in hostRows : r.id # id}
  /\ UNCHANGED <<hostSeq, hostCall, now, nonHostVars>>

\* the caller has taken the call's outcome
HostCallSettled(c) ==
  /\ hostCall[c].pc \in {"returned", "threw"}
  /\ hostCall' = [hostCall EXCEPT ![c] = NoHostCall]
  /\ UNCHANGED <<hostRows, hostSeq, now, nonHostVars>>

\* the hostInfo that createHost's callers pass: one leaves status and
\* lastHeartbeat out, the other gives both
HostInfos == {HostInfo("vps-1", "", Null), HostInfo("vps-2", "offline", Earlier)}

\* the tables the service starts over: the first host stored in any status,
\* or not stored
StoredTables ==
  {{}} \cup {{HostRow(1, "vps-1", status, Earlier)} : status \in HostStatuses}

HostInit ==
  /\ WorkerConstructed({1}, {MaxInterval}, {1})
  /\ ProviderLoaded({"part_005"})
  /\ NoProviderCalls
  /\ NoMonitor
  /\ NoConfig
  /\ HostsStored(StoredTables)
  /\ NoNodeCalls

HostNext ==
  \/ \E c \in HostCalls, info \in HostInfos : CreateHostCalled(c, info)
  \/ \E c \in HostCalls, name \in HostNames : ProcessHeartbeatCalled(c, name)
  \/ \E c \in HostCalls : HeartbeatLookup(c)
  \/ \E c \in HostCalls : CreateCheck(c)
  \/ \E c \in HostCalls : CreateInsert(c)
  \/ \E c \in HostCalls : HeartbeatUpdate(c)
  \/ \E id \in 1..MaxHostIds : DeleteHost(id)
  \/ \E c \in HostCalls : HostCallSettled(c)

HostSpec == HostInit /\ [][HostNext]_vars

\* ------------------------------------------------------------ node service
nonNodeVars == <<queueVars, configVars, batchVars, localVars, dnsRecords, nextTask,
                 request, result, defaultProvider, now, factoryVars, cfVars, monitorVars,
                 processVars, hostVars, templateFiles, templateCache, configCall,
                 configResult, readsSinceReload, overlapVars>>

\* the node ids and host ids the callers pass
AskedNodes == 1..MaxNodes
AskedHosts == {0, LinkedHostId, LinkedHostId + 1}

NodeCallIdle == nodeCall.pc \in {"idle", "returned", "threw"}

NodeThrows(error) == nodeCall' = [nodeCall EXCEPT !.pc = "threw", !.error = error]

\* linkNodeToHost(nodeId, hostId) is called: it awaits the select of the host
LinkNodeToHostCalled(nodeId, hostId) ==
  /\ NodeCallIdle
  /\ nodeCall' = [NoNodeCall EXCEPT !.op = "linkNodeToHost", !.pc = "host",
                                    !.nodeId = nodeId, !.hostId = hostId,
                                    !.update = [hostId |-> <<hostId>>]]
  /\ UNCHANGED <<configNodes, configHosts, nonNodeVars>>

\* unlinkNodeFromHost(nodeId) is called: updateNode(nodeId, {hostId:
\* undefined}) awaits getNodeById
UnlinkNodeFromHostCalled(nodeId) ==
  /\ NodeCallIdle
  /\ nodeCall' = [NoNodeCall EXCEPT !.op = "unlinkNodeFromHost", !.pc = "node",
                                    !.nodeId = nodeId]
  /\ UNCHANGED <<configNodes, configHosts, nonNodeVars>>

\* linkNodeToHost's select of the host answers: without the host it throws,
\* with it updateNode(nodeId, {hostId}) is called and awaits getNodeById
HostSelected ==
  /\ nodeCall.pc = "host"
  /\ IF nodeCall.hostId \in DOMAIN configHosts
     THEN nodeCall' = [nodeCall EXCEPT !.pc = "node"]
     ELSE NodeThrows("Host not found")
  /\ UNCHANGED <<configNodes, configHosts, nonNodeVars>>

\* updateNode's getNodeById answers: without the node updateNode returns null
\* and the caller throws, with it the update is issued
NodeSelected ==
  /\ nodeCall.pc = "node"
  /\ IF nodeCall.nodeId \in DOMAIN configNodes
     THEN nodeCall' = [nodeCall EXCEPT !.pc = "update"]
     ELSE NodeThrows("Node not found")
  /\ UNCHANGED <<configNodes, configHosts, nonNodeVars>>

\* updateNode's update ... set({...update, updatedAt}) where id = ? returning:
\* the statement fails on the foreign key, or matches no row (result[0].name
\* then throws a TypeError), or writes the row; every throw is rethrown
NodeUpdated ==
  /\ nodeCall.pc = "update"
  /\ IF nodeCall.nodeId \notin DOMAIN configNodes
     THEN NodeThrows("TypeError") /\ UNCHANGED configNodes
     ELSE LET row == UpdateSet(configNodes[nodeCall.nodeId], nodeCall.update)
          IN  IF ForeignKeyFails(configHosts, row)
              THEN NodeThrows("constraint") /\ UNCHANGED configNodes
              ELSE /\ configNodes' = [configNodes EXCEPT ![nodeCall.nodeId] = row]
                   /\ nodeCall' = [nodeCall EXCEPT !.pc = "returned"]
  /\ UNCHANGED <<configHosts, nonNodeVars>>

\* deleteNode(id), one statement
DeleteNode(id) ==
  /\ id \in DOMAIN configNodes
  /\ configNodes' = Without(configNodes, id)
  /\ UNCHANGED <<configHosts, nodeCall, nonNodeVars>>

\* deleteHost(id), one statement: it fails on the foreign key while a node is
\* linked to the host
NodeDeleteHost(id) ==
  /\ id \in DOMAIN configHosts
  /\ \A n \in DOMAIN configNodes : configNodes[n].hostId # id
  /\ configHosts' = Without(configHosts, id)
  /\ UNCHANGED <<configNodes, nodeCall, nonNodeVars>>

\* the stored node with that id, linked to that host (0 for none)
StoredNode(id, hostId) ==
  [id |-> id, name |-> <<"node-1">>, domain |-> <<"a.example.com">>, port |-> 443,
   additionalPorts |-> <<>>, proxyType |-> <<"vless">>, hostId |-> hostId]

\* tables that hold some of the nodes and some of the hosts, every linked
\* host stored
NodeTables ==
  {<<>>} \cup UNION {[ids -> {0, LinkedHostId}] : ids \in SUBSET AskedNodes \ {{}}}

NodeInit ==
  /\ WorkerConstructed({1}, {MaxInterval}, {1})
  /\ ProviderLoaded({"part_005"})
  /\ NoProviderCalls
  /\ NoMonitor
  /\ NoHostCalls
  /\ NoNodeCalls
  /\ \E links \in NodeTables :
       ConfigLoaded({<<>>},
                    {[i \in DOMAIN links |-> StoredNode(i, links[i])]},
                    {[h \in hs |-> CHOOSE row \in HostRows : row.ipv6 = <<>>] :
                       hs \in {hs \in SUBSET (AskedHosts \ {0}) :
                                 \A i \in DOMAIN links : links[i] # 0 => links[i] \in hs}})

NodeNext ==
  \/ \E nodeId \in AskedNodes, hostId \in AskedHosts : LinkNodeToHostCalled(nodeId, hostId)
  \/ \E nodeId \in AskedNodes : UnlinkNodeFromHostCalled(nodeId)
  \/ HostSelected
  \/ NodeSelected
  \/ NodeUpdated
  \/ \E id \in AskedNodes : DeleteNode(id)
  \/ \E id \in AskedHosts : NodeDeleteHost(id)

NodeSpec == NodeInit /\ [][NodeNext]_vars

\* ================================================================== claims
Running == {"select", "provider", "write", "throw"}

\* task t was admitted and PQueue.clear dropped its run closure
Dropped(t) == pc[t] = "waiting" /\ ~InSeq(t, queue)

\* the step settles task t
Settles(t) == pc[t] \in Running /\ pc'[t] \notin Running

\* the step starts task t's body
Starts(t) == pc[t] \in {"new", "waiting"} /\ pc'[t] \in Running

\* the step settles task t because its body threw: no provider or a store
\* read error (pc "throw"), or a store write that did not return
BodyThrew(t) ==
  /\ Settles(t)
  /\ pc[t] = "throw" \/ (pc[t] = "write" /\ result'[t] # "true")

\* C1: a task whose body throws delivers false to its caller, and the throw
\* leaves the queue going: no other task's result or position changes, the
\* queue is not paused or emptied by it, and the slot it frees is given to the
\* next waiting task.
C1_ThrowIsFalseAndIsolated ==
  [][\A t \in Tasks :
       BodyThrew(t) =>
         /\ result'[t] = "false"
         /\ isPaused' = isPaused
         /\ Len(queue) > 0 /\ ~isPaused =>
              /\ pc'[Head(queue)] \in Running
              /\ queue' = Tail(queue)
              /\ pending' = pending
         /\ Len(queue) = 0 \/ isPaused => queue' = queue /\ pending' = pending - 1
         /\ \A u \in Tasks \ {t} :
              /\ result'[u] = result[u]
              /\ Starts(u) \/ pc'[u] = pc[u]]_vars

\* C1 witness: with no provider installed task 1 threw and got false, and the
\* queue has gone on to start task 2
C1_Witness ==
  /\ concurrency = 1
  /\ defaultProvider = "null"
  /\ pc[1] = "settled" /\ result[1] = "false"
  /\ pc[2] = "throw"

\* C2: the number of task bodies executing equals #pending and never exceeds
\* the concurrency; with concurrency 1 no two bodies are executing at once.
C2_ConcurrencyBound ==
  /\ pending <= concurrency
  /\ Cardinality({t \in Tasks : pc[t] \in Running}) = pending
  /\ concurrency = 1 =>
       \A t, u \in Tasks : pc[t] \in Running /\ pc[u] \in Running => t = u

\* C2 witness: concurrency 1, one body in its provider call, two tasks held back
C2_Witness ==
  /\ concurrency = 1
  /\ ~isPaused
  /\ Len(queue) = 2
  /\ \E t \in Tasks : pc[t] = "provider"

\* C3: with concurrency 1, when a task starts or settles every task admitted
\* before it has settled (or was dropped by clear and never starts), and when
\* a task settles no task admitted after it has started.
C3_FifoOrder ==
  [][concurrency = 1 =>
       \A t \in Tasks :
         /\ Starts(t) =>
              \A u \in 1..(t - 1) : pc'[u] = "settled" \/ Dropped(u)'
         /\ Settles(t) =>
              /\ \A u \in 1..(t - 1) : pc'[u] = "settled" \/ Dropped(u)'
              /\ \A u \in (t + 1)..MaxTasks : pc[u] \in {"new", "waiting"}]_vars

\* C3 witness: concurrency 1 and every task has run and settled
C3_Witness ==
  /\ concurrency = 1
  /\ \A t \in Tasks : pc[t] = "settled" /\ result[t] # "pending"


\* C4: every admitted task is eventually settled: its caller gets a boolean.
C4_EveryTaskSettles ==
  \A t \in Tasks : (pc[t] # "new") ~> (result[t] \in {"true", "false"})

\* a row of the table holds request r
StoreHolds(rows, r) ==
  \E i \in 1..Len(rows) :
    /\ rows[i].nodeId = r.nodeId
    /\ rows[i].domain = r.domain
    /\ rows[i].type = r.type
    /\ rows[i].value = r.value

\* C5 as claimed: the boolean delivered is the provider's: true whenever
\* provider.updateRecord reported success, false whenever it reported failure.
C5_ResultIsProviderResult ==
  [][\A t \in Tasks :
       Settles(t) =>
         /\ providerResult[t] = "true" => result'[t] = "true"
         /\ pc[t] = "provider" => result'[t] = "false"]_vars

\* C5 amended: the boolean delivered is the task body's: false when the
\* provider reported failure or was never asked (the body threw first); after a
\* provider success, true with the request written to the store, or false with
\* the store untouched (the write-back threw); true only after a provider
\* success.
C5_ResultIsBodyResult ==
  [][\A t \in Tasks :
       Settles(t) =>
         /\ pc[t] = "provider" => result'[t] = "false"
         /\ pc[t] = "throw" => result'[t] = "false" /\ providerResult[t] = "none"
         /\ pc[t] = "write" =>
              /\ providerResult[t] = "true"
              /\ result'[t] \in {"true", "false"}
              /\ result'[t] = "true" => StoreHolds(dnsRecords', request[t])
              /\ result'[t] = "false" => dnsRecords' = dnsRecords
         /\ result'[t] = "true" => pc[t] = "write"]_vars

\* C5 witness: a task delivered true and its request is in the store, while
\* another task, at its write-back after a provider success, is yet to settle
C5_Witness ==
  \E t, u \in Tasks :
    /\ result[t] = "true"
    /\ Len(dnsRecords) > 0
    /\ pc[u] = "write" /\ providerResult[u] = "true"

\* C6: any two task executions start at least `interval` apart.
C6_StartsAtLeastIntervalApart ==
  \A t, u \in Tasks :
    t # u /\ startedAt[t] >= 0 /\ startedAt[u] >= startedAt[t] =>
      startedAt[u] - startedAt[t] >= interval

\* C7: while the queue stays paused no task starts, a task admitted is put on
\* the queue, and the bodies in flight go on and deliver their results; pause
\* itself touches no task; start() starts the waiting tasks from the front of
\* the queue, as many as there are free slots.
C7_PauseHoldsWaitingTasks ==
  [][/\ isPaused /\ isPaused' =>
          \A t \in Tasks :
            /\ ~Starts(t)
            /\ pc[t] = "new" /\ pc'[t] # "new" => pc'[t] = "waiting" /\ InSeq(t, queue')
            /\ Settles(t) => result'[t] \in {"true", "false"}
            /\ pc[t] \in Running => pc'[t] \in Running \/ Settles(t)
     /\ ~isPaused /\ isPaused' =>
          \A t \in Tasks : pc'[t] = pc[t] /\ result'[t] = result[t]
     /\ isPaused /\ ~isPaused' =>
          /\ \A i \in 1..Len(queue) : Starts(queue[i]) <=> i <= concurrency - pending
          /\ \A t \in Tasks : ~InSeq(t, queue) => pc'[t] = pc[t]]_vars

\* C7 witness: the queue is paused with a free slot and a task held on the
\* queue, and a task has settled
C7_Witness ==
  /\ isPaused
  /\ pending = 0
  /\ Len(queue) > 0
  /\ \E t \in Tasks : result[t] = "true"

\* C8: a task dropped by clear stays dropped: its body is never started and
\* no provider call is made for it; the store changes only in a step of a
\* body at its write-back; the step that drops tasks empties the queue and
\* changes no task's position or result nor #pending.
C8_ClearDropsWaitingOnly ==
  [][/\ \A t \in Tasks :
          Dropped(t) => Dropped(t)' /\ execCount'[t] = 0 /\ providerCalls'[t] = 0
     /\ dnsRecords' # dnsRecords =>
          \E t \in Tasks : pc[t] = "write" /\ Settles(t) /\ execCount[t] = 1
     /\ (\E t \in Tasks : ~Dropped(t) /\ Dropped(t)') =>
          /\ queue' = <<>>
          /\ pending' = pending
          /\ \A u \in Tasks :
               /\ pc'[u] = pc[u]
               /\ result'[u] = result[u]]_vars

\* C8 witness: a task is dropped while a task admitted before it, in flight when
\* the queue was cleared, is at its write-back
C8_Witness ==
  \E t, u \in Tasks : u < t /\ Dropped(t) /\ pc[u] = "write"

\* C9: a task's body is started at most once and calls the provider at most
\* once; a settled task is not on the queue again.
C9_AtMostOnce ==
  \A t \in Tasks :
    /\ execCount[t] <= 1
    /\ providerCalls[t] <= execCount[t]
    /\ pc[t] = "settled" => ~InSeq(t, queue)

\* C9 witness: a task has failed, the queue is idle and running, and the task
\* was executed once
C9_Witness ==
  \E t \in Tasks :
    /\ pc[t] = "settled" /\ result[t] = "false" /\ execCount[t] = 1
    /\ pending = 0 /\ queue = <<>> /\ ~isPaused

\* C10: addUpdateTasks eventually yields an array as long as the request list
\* whose element i is the result of request i.
C10_BatchYieldsResults ==
  (batchResult.state = "pending") ~>
    (/\ batchResult.state = "fulfilled"
     /\ Len(batchResult.values) = Len(batch)
     /\ \A i \in 1..Len(batch) :
          /\ batchResult.values[i] \in {"true", "false"}
          /\ batchResult.values[i] = result[batch[i]])

\* --------------------------------------------------------------------- C11
\* the rows of the table that belong to node n
RowsOf(rows, n) == {i \in 1..Len(rows) : rows[i].nodeId = n}

\* C11: with concurrency 1 the store never holds two dns records of one node,
\* and when a task settles with true the node's one record holds that task's
\* (domain, type, value); so a record that an earlier failed write-back left
\* behind the provider is set right by the node's next successful task.
C11_OneRecordPerNodeHoldsRequest ==
  [][ /\ \A n \in 1..MaxNodes : Cardinality(RowsOf(dnsRecords', n)) <= 1
      /\ \A t \in Tasks :
           Settles(t) /\ result'[t] = "true" =>
             /\ RowsOf(dnsRecords', request[t].nodeId) # {}
             /\ \A i \in RowsOf(dnsRecords', request[t].nodeId) :
                  /\ dnsRecords'[i].domain = request[t].domain
                  /\ dnsRecords'[i].type = request[t].type
                  /\ dnsRecords'[i].value = request[t].value ]_vars

\* node 1's record was written, a later task for it failed, and the task
\* after that brought the one record to the new value
C11_Witness ==
  /\ concurrency = 1
  /\ result[1] = "true" /\ result[2] = "false" /\ result[3] = "true"
  /\ Len(dnsRecords) = 1
  /\ dnsRecords[1].nodeId = 1 /\ dnsRecords[1].value = "10.0.0.2"

\* --------------------------------------------------------------------- C12
\* the vendor's records for (domain, type) in any zone
RecordsFor(records, domain, type) ==
  {i \in 1..Len(records) : records[i].name = domain /\ records[i].type = type}

\* C12: over serialized updateRecord calls whose requests may fail, the vendor
\* never holds two records for one (domain, type): a create is issued only
\* when no record for (zone, name, type) exists.
C12_OneRecordPerDomainType ==
  [][ /\ cfPc = "write" /\ cfPc' = "idle" /\ cfCall.existing = 0 =>
           Matching(cfRecords, cfCall.zoneId, cfCall.domain, cfCall.type) = {}
      /\ \A domain \in Domains, type \in RecordTypes :
           Cardinality(RecordsFor(cfRecords', domain, type)) <= 1 ]_vars

\* --------------------------------------------------------------------- C13
\* calls k and k + 1 are updateRecord calls for one (domain, type), no request
\* of either failed, the first found no record and created one, and the
\* second carries a new value
CreateThenNewValue(k) ==
  /\ cfLog[k].op = "updateRecord" /\ cfLog[k + 1].op = "updateRecord"
  /\ cfLog[k].domain = cfLog[k + 1].domain /\ cfLog[k].type = cfLog[k + 1].type
  /\ ~cfLog[k].failed /\ ~cfLog[k + 1].failed
  /\ cfLog[k].write = "create"
  /\ cfLog[k].value # cfLog[k + 1].value

\* C13: two serialized updateRecord calls for one (domain, type), the first
\* with no record there and the second with a new value, make one create call
\* and then one update call to the id of the record the first created, and
\* leave one record for (domain, type), holding the second value.
C13_CreateThenUpdateSameRecord ==
  \A k \in 1..(Len(cfLog) - 1) :
    CreateThenNewValue(k) =>
      /\ cfLog[k + 1].write = "update"
      /\ cfLog[k + 1].id = cfLog[k].id
      /\ k + 1 = Len(cfLog) =>
           /\ RecordsFor(cfRecords, cfLog[k].domain, cfLog[k].type) = {cfLog[k].id}
           /\ cfRecords[cfLog[k].id].content = cfLog[k + 1].value

\* both calls have returned true, each after looking the zone id up
C13_Witness ==
  /\ Len(cfLog) = 2
  /\ CreateThenNewValue(1)
  /\ cfLog[2].ret = "true"
  /\ cfZoneId = ""

\* --------------------------------------------------------------------- C14
\* C14: updateRecord and getRecord never raise; a call one of whose requests
\* failed (transport error or error response) returned false, or null for
\* getRecord; and updateRecord returned true only when the vendor accepted
\* the write.
C14_FailureIsFalseOrNull ==
  \A k \in 1..Len(cfLog) :
    /\ cfLog[k].ret # "raised"
    /\ cfLog[k].failed =>
         cfLog[k].ret = IF cfLog[k].op = "updateRecord" THEN "false" ELSE "null"
    /\ cfLog[k].ret = "true" => cfLog[k].accepted

\* --------------------------------------------------------------------- C15
\* C15: createDnsProvider throws for godaddy, namecheap and any other tag and
\* for cloudflare with an empty token, and returns a provider only for
\* cloudflare with a token; initializeDnsProvider then ends with the error
\* and defaultProvider is not assigned.
C15_FactoryFailsFast ==
  [][ initCall' # initCall =>
        IF initCall'.config.provider = "cloudflare" /\ initCall'.config.apiKey # ""
        THEN /\ initCall'.outcome = "returned"
             /\ defaultProvider' = "cloudflare"
        ELSE /\ initCall'.outcome = "threw"
             /\ defaultProvider' = defaultProvider ]_vars

\* --------------------------------------------------------------------- C16
\* offline notifications are enabled
OfflineEnabled == monitorConfig.notifyOnHostOffline /\ telegramEnabled

\* the step in which the sweep's heartbeat loop runs over the hosts it read
LoopRuns == sweepPc = "heartbeats" /\ heartbeatCheck' \in {"done", "aborted"}

\* C16: a host stored not offline and with now - lastHeartbeat >
\* heartbeatTimeout when the sweep reads it is stored offline by that sweep
\* and, when enabled, gets an offline notification attempt (for the sweeps
\* whose store calls succeed, and the hosts with no heartbeat meanwhile).
C16_StaleHostMarkedAndNotified ==
  heartbeatCheck = "marked" =>
    \A name \in sweepStale :
      /\ hosts[name].status = "offline"
      /\ OfflineEnabled => offlineAttempts[name] = 1

\* --------------------------------------------------------------------- C17
\* C17: a host that the monitor takes from not offline to offline has got
\* exactly one offline notification attempt in that sweep (when enabled), and
\* a host notified once gets no further attempt before a heartbeat of it.
C17_OncePerTransition ==
  [][ /\ sweepPc = "mark" =>
           \A name \in HostNames :
             /\ hosts[name].status # "offline"
             /\ hosts'[name].status = "offline"
             /\ OfflineEnabled
             => offlineAttempts[name] = 1
      /\ sweepPc = "heartbeats" /\ heartbeatCheck' = "done" =>
           \A name \in HostNames : notified[name] => offlineAttempts'[name] = 0 ]_vars

DiskKnown(host) == host.diskTotal # 0 /\ host.diskUsed # Null

C20_HostFailureContained ==
  [][ LoopRuns =>
        /\ \A name \in HostNames :
             /\ hosts[name].status # "offline"
             /\ IsStale(hosts[name], now)
             /\ OfflineEnabled
             => offlineAttempts'[name] = 1
        /\ sweepPc' = "mark" ]_vars

C22_DeliveryFailureContained ==
  (heartbeatCheck = "marked" /\ \E name \in HostNames : delivered[name] = "false") =>
    /\ \A name \in HostNames :
         /\ offlineAttempts[name] <= 1
         /\ delivered[name] = "false" => offlineAttempts[name] = 1
    /\ \A name \in sweepStale :
         /\ offlineAttempts[name] = 1
         /\ hosts[name].status = "offline"

\* --------------------------------------------------------------------- C23
\* C23: when shutdownDnsWorker resolves, and when a SIGINT or SIGTERM handler
\* ends the process, no task's body is executing (so none is cut off in the
\* middle of its provider call).
C23_ShutdownDrains ==
  [][ ShutdownDnsWorker \/ Sigint => \A t \in Tasks : pc'[t] \notin Running ]_vars

\* --------------------------------------------------------------------- C24
\* the template body and the context of the call that returned
RenderedContext == getNodeContext(configNodes, configHosts, configResult.request.nodeId)

\* C24: the text a render returns holds no occurrence of any of the nine
\* placeholders.
C24_NoPlaceholderLeft ==
  configResult.outcome = "returned" =>
    \A key \in KeyNames : ~Contains(configResult.config, Placeholder(key))

\* --------------------------------------------------------------------- C25
\* every placeholder of the text replaced at once, in one pass from the left
RECURSIVE Simultaneous(_, _)
Simultaneous(text, replacements) ==
  IF Len(text) < 3 THEN text
  ELSE IF text[1] = "{{" /\ text[2] \in KeyNames /\ text[3] = "}}"
       THEN replacements[text[2]] \o Simultaneous(SubSeq(text, 4, Len(text)), replacements)
       ELSE <<Head(text)>> \o Simultaneous(Tail(text), replacements)

\* C25: the text a render returns is the template with all its placeholder
\* occurrences replaced at once: an inserted value is not scanned again.
C25_SinglePass ==
  configResult.outcome = "returned" =>
    configResult.config =
      Simultaneous(configResult.template, Replacements(RenderedContext))

\* --------------------------------------------------------------------- C26
\* the text holds no brace token and no variable name
Plain(text) ==
  \A i \in 1..Len(text) : text[i] \notin {"{{", "}}"} \cup KeyNames

\* the template is made of whole placeholders and plain text
WholePlaceholders(text) == Plain(Simultaneous(text, [key \in KeyNames |-> <<>>]))

\* the host row the rendered node is linked to, <<>> when it has no hostId or
\* no host has that id
LinkedHost ==
  LET hostId == configNodes[configResult.request.nodeId].hostId
  IN IF hostId # 0 /\ hostId \in DOMAIN configHosts THEN <<configHosts[hostId]>> ELSE <<>>

\* what the claim has each placeholder replaced by: the node's values, the
\* additional ports joined by commas, and for the host variables the linked
\* host's value or the empty text when the host or the value is missing
Expected ==
  LET nodeData == configNodes[configResult.request.nodeId]
  IN [key \in KeyNames |->
        CASE key = "NODE_ID" -> <<"1">>
          [] key = "NODE_NAME" -> nodeData.name
          [] key = "DOMAIN" -> nodeData.domain
          [] key = "PORT" -> <<"443">>
          [] key = "PROXY_TYPE" -> nodeData.proxyType
          [] key = "HOST_IP" -> IF LinkedHost = <<>> THEN <<>> ELSE LinkedHost[1].ip
          [] key = "HOST_IPV6" -> IF LinkedHost = <<>> THEN <<>> ELSE LinkedHost[1].ipv6
          [] key = "HOST_REGION" -> IF LinkedHost = <<>> THEN <<>> ELSE LinkedHost[1].region
          [] key = "ADDITIONAL_PORTS" ->
               CASE nodeData.additionalPorts = <<>> -> <<>>
                 [] nodeData.additionalPorts = <<"8443">> -> <<"8443">>
                 [] nodeData.additionalPorts = <<"8443", " 8444">> ->
                      <<"8443", ",", "8444">>]

\* C26: a render for a stored node returns, also when the node has no host,
\* a dangling hostId or a host without ipv6 or region; for a template of whole
\* placeholders and a node with plain values, each placeholder is replaced
\* by the node's value, the host variables by the empty text when the host or
\* the value is missing, and the additional ports joined by commas.
C26_MissingHostIsEmpty ==
  configResult.outcome # "none" =>
    /\ configResult.outcome = "returned"
    /\ ( /\ WholePlaceholders(configResult.template)
         /\ Plain(configNodes[1].name) /\ Plain(configNodes[1].domain) )
       => configResult.config = Simultaneous(configResult.template, Expected)

\* the scenario of the claim: DOMAIN, ADDITIONAL_PORTS and HOST_IP rendered for
\* a.example.com, port 443, additional ports 8443 and no host
C26_Witness ==
  /\ configResult.outcome = "returned"
  /\ configNodes[1].domain = <<"a.example.com">>
  /\ configNodes[1].additionalPorts = <<"8443">>
  /\ configNodes[1].hostId = 0
  /\ configResult.template =
       Placeholder("DOMAIN") \o Placeholder("ADDITIONAL_PORTS") \o Placeholder("HOST_IP")
  /\ configResult.config = <<"a.example.com", "8443">>

\* --------------------------------------------------------------------- C27
\* the step is a generateConfig call that finds its template in the cache and
\* ends at once
ServedFromCache == configCall.pc = "idle" /\ configResult' # configResult

\* the step is a generateConfig call that goes to the template store
GoesToStore == configCall.pc = "idle" /\ configCall'.pc = "reading"

\* C27: a call goes to the store only when its (type, name) is not cached,
\* and what it read is then cached; a cached body stays as it is until
\* reloadTemplates, whatever happens to the file, and a call served from the
\* cache renders that body; and the body a call is served from the cache was
\* read from the store after the last reloadTemplates.
C27_CachedUntilReload ==
  [][ /\ GoesToStore => TemplateKey(configCall'.request) \notin DOMAIN templateCache
      /\ configCall.pc = "read" /\ configCall'.pc = "idle" =>
           templateCache'[TemplateKey(configCall.request)] = configCall.content
      /\ \A key \in DOMAIN templateCache :
           \/ templateCache' = <<>>
           \/ key \in DOMAIN templateCache' /\ templateCache'[key] = templateCache[key]
      /\ ServedFromCache =>
           /\ configResult'.template = templateCache[TemplateKey(configResult'.request)]
           /\ templateCache' = templateCache
           /\ TemplateKey(configResult'.request) \in readsSinceReload ]_vars

\* --------------------------------------------------------------------- C28
\* C28: a call whose template file is missing ends with 'Template not found',
\* a call for a node that is not stored ends with the node-not-found error
\* (when its template was found); neither returns a config, a failed load
\* leaves no cache entry for its (type, name), and so the next call for it
\* goes to the store, and returns what it reads there.
C28_FailuresAreTerminalAndNotCached ==
  [][ /\ ( /\ configCall.pc = "reading" /\ configCall' # configCall
           /\ TemplateKey(configCall.request) \notin DOMAIN templateFiles )
         => configCall'.pc = "failed"
      /\ configCall.pc = "failed" /\ configCall' # configCall =>
           /\ configResult'.outcome = "template_not_found"
           /\ configResult'.config = <<>>
           /\ TemplateKey(configCall.request) \notin DOMAIN templateCache'
      /\ configCall.pc = "read" /\ configCall' # configCall =>
           configResult'.outcome =
             IF configCall.request.nodeId \in DOMAIN configNodes
             THEN "returned" ELSE "node_not_found"
      /\ configResult'.outcome = "node_not_found" => configResult'.config = <<>>
      /\ ( /\ configCall.pc = "idle" /\ configCall' # configCall
           /\ configResult.outcome = "template_not_found"
           /\ TemplateKey(configCall'.request) = TemplateKey(configResult.request)
           /\ TemplateKey(configResult.request) \notin DOMAIN templateCache )
         => configCall'.pc = "reading" ]_vars

\* the call for the default xray template ended with 'Template not found',
\* the file has appeared since, and the next call for it has read the file
C28_Witness ==
  /\ configResult.outcome = "template_not_found"
  /\ TemplateKey(configResult.request) = <<"xray", "default">>
  /\ <<"xray", "default">> \notin DOMAIN templateCache
  /\ <<"xray", "default">> \in DOMAIN templateFiles
  /\ configCall.pc = "read"
  /\ TemplateKey(configCall.request) = <<"xray", "default">>
  /\ configCall.content = templateFiles[<<"xray", "default">>]

\* the step in which call c, a processHeartbeat, returns
HeartbeatReturns(c) ==
  /\ hostCall[c].op = "processHeartbeat"
  /\ hostCall[c].pc \in {"insert", "update"}
  /\ hostCall'[c].pc = "returned"

\* C29: when processHeartbeat for host name n returns, a host named n is
\* stored with status 'online' and lastHeartbeat the time of processing,
\* whether the name was unknown (auto-created) or the host was stored as
\* unknown, online or offline
C29_HeartbeatLeavesHostOnline ==
  [][\A c \in HostCalls :
       HeartbeatReturns(c) =>
         \E r \in hostRows' : /\ r.name = hostCall[c].info.name
                              /\ r.status = "online"
                              /\ r.lastHeartbeat = now]_vars

\* call c, inside createHost, takes a step while a host of its name is stored
MeetsStoredName(c) ==
  /\ hostCall[c].pc \in {"check", "insert"}
  /\ hostCall'[c] # hostCall[c]
  /\ \E r \in hostRows : r.name = hostCall[c].info.name

\* C30: createHost, called directly or by processHeartbeat, ends with an
\* error and changes nothing in the store when a host of that name is stored,
\* and no two stored hosts share a name, however the calls interleave
C30_DuplicateNameRejected ==
  [][ /\ \A c \in HostCalls :
           MeetsStoredName(c) =>
             /\ hostCall'[c].pc = "threw"
             /\ hostRows' = hostRows
             /\ hostSeq' = hostSeq
      /\ \A r, q \in hostRows' : r.name = q.name => r = q ]_vars

\* two overlapping calls for one name both passed createHost's check; one has
\* inserted the host and the other's insert failed
C30_Witness ==
  \E c, d \in HostCalls :
    /\ hostCall[c].pc = "returned" /\ hostCall[c].host # 0
    /\ hostCall[d].pc = "threw" /\ hostCall[d].error = "constraint"
    /\ hostCall[c].info.name = hostCall[d].info.name
    /\ \E r \in hostRows : r.name = hostCall[d].info.name

\* the step in which the node service call in progress ends
NodeCallEnds == nodeCall.pc \notin {"idle", "returned", "threw"} /\ NodeCallIdle'

\* the step writes no node's hostId
LinksUnchanged ==
  /\ DOMAIN configNodes' = DOMAIN configNodes
  /\ \A i \in DOMAIN configNodes : configNodes'[i].hostId = configNodes[i].hostId

\* C31: linkNodeToHost(nodeId, hostId) sets the node's hostId to hostId when
\* the node and the host are stored, and otherwise ends with an error and
\* leaves every node's hostId as it was; no step of the call but the one that
\* returns writes a hostId
C31_LinkSetsOrFails ==
  [][nodeCall.op = "linkNodeToHost" /\ nodeCall' # nodeCall /\ ~NodeCallIdle =>
       /\ NodeCallEnds /\ nodeCall.nodeId \in DOMAIN configNodes
                       /\ nodeCall.hostId \in DOMAIN configHosts =>
            /\ nodeCall'.pc = "returned"
            /\ configNodes'[nodeCall.nodeId].hostId = nodeCall.hostId
       /\ NodeCallEnds /\ ~(/\ nodeCall.nodeId \in DOMAIN configNodes
                            /\ nodeCall.hostId \in DOMAIN configHosts) =>
            nodeCall'.pc = "threw"
       /\ nodeCall'.pc # "returned" => LinksUnchanged
       /\ nodeCall'.pc = "returned" =>
            \A i \in DOMAIN configNodes \ {nodeCall.nodeId} :
              i \in DOMAIN configNodes' /\ configNodes'[i].hostId = configNodes[i].hostId]_vars

\* an unlinked node has been linked to a stored host
C31_Witness ==
  /\ nodeCall.op = "linkNodeToHost" /\ nodeCall.pc = "returned"
  /\ nodeCall.nodeId \in DOMAIN configNodes
  /\ configNodes[nodeCall.nodeId].hostId = nodeCall.hostId
  /\ nodeCall.hostId = LinkedHostId + 1

\* C36: when unlinkNodeFromHost(nodeId) returns for a stored node that was
\* linked to a host, the stored node has no linked host; for a node that is
\* not stored the call ends with the not-found error and changes no node
C36_UnlinkClearsHost ==
  [][nodeCall.op = "unlinkNodeFromHost" /\ NodeCallEnds =>
       /\ nodeCall'.pc = "returned" => configNodes'[nodeCall.nodeId].hostId = 0
       /\ nodeCall.nodeId \notin DOMAIN configNodes =>
            /\ nodeCall'.pc = "threw"
            /\ nodeCall.pc = "node" => nodeCall'.error = "Node not found"
            /\ LinksUnchanged]_vars

\* --------------------------------------------------------------------- C32
\* the step in which an updateRecord call whose lookup was answered, and
\* answered with no record, issues its create although the vendor by now holds
\* a record for the call's (domain, type)
StaleCreate(pcBefore, pcAfter, call) ==
  /\ pcBefore = "write" /\ pcAfter = "idle"
  /\ call.existing = 0 /\ ~call.failed
  /\ Matching(cfRecords, call.zoneId, call.domain, call.type) # {}

\* C32: with concurrency > 1 two overlapping updateRecord calls for one
\* (domain, type) can both find no record and both create one.  A call whose
\* lookups all succeeded creates next to an existing record only when the
\* queue runs more than one body at once, and the create, once the vendor
\* accepts it, leaves two records for the pair.
C32_OverlappingCreatesDuplicate ==
  [][ /\ concurrency = 1 => cfOverlap' = NoOverlap
      /\ StaleCreate(cfPc, cfPc', cfCall) \/ StaleCreate(cfOverlap.pc, cfOverlap'.pc, cfOverlap.call) =>
           /\ concurrency > 1
           /\ cfLog'[Len(cfLog')].accepted =>
                Cardinality(RecordsFor(cfRecords', HostName, "A")) >= 2 ]_vars

\* both calls looked the record up before either created it, no request
\* failed, and the vendor holds two records for (hk01.example.com, A)
C32_Witness ==
  /\ concurrency > 1
  /\ Len(cfLog) = 2
  /\ \A k \in 1..2 : /\ cfLog[k].op = "updateRecord" /\ cfLog[k].write = "create"
                     /\ cfLog[k].accepted /\ ~cfLog[k].failed
  /\ Cardinality(RecordsFor(cfRecords, HostName, "A")) = 2

\* --------------------------------------------------------------------- C33
\* C33: a task whose provider call reports false, or whose body finds no
\* provider installed, writes nothing to the store.  A body started without a
\* provider throws at once; the write-back is reached only from a provider
\* call that returned true; and (one body at a time) the store does not change
\* while a task stands anywhere before its write-back, so after such a task
\* the node's record, or its absence, is what it was when the task started.
C33_FailureWritesNothing ==
  [][\A t \in Tasks :
       /\ Starts(t) /\ defaultProvider = "null" => pc'[t] = "throw"
       /\ pc[t] \in {"select", "provider", "throw"} => dnsRecords' = dnsRecords
       /\ pc[t] # "write" /\ pc'[t] = "write" =>
            pc[t] = "provider" /\ providerResult'[t] = "true"
       /\ Settles(t) /\ pc[t] = "provider" => result'[t] = "false"]_vars

\* node 1's record was written by the first task, and the second task, which
\* ran with the provider installed, settled with false and left it alone
C33_Witness ==
  /\ result[1] = "true" /\ result[2] = "false"
  /\ execCount[2] = 1 /\ defaultProvider # "null"
  /\ Len(dnsRecords) = 1 /\ dnsRecords[1].nodeId = 1 /\ dnsRecords[1].value = "10.0.0.1"

\* --------------------------------------------------------------------- C34
\* the tasks addUpdateTask has admitted
Admitted == {t \in Tasks : pc[t] # "new"}

\* the four states of an admitted task
IsWaiting(t) == pc[t] = "waiting" /\ InSeq(t, queue)
IsExecuting(t) == pc[t] \in Running
IsSettled(t) == pc[t] = "settled"

\* DnsWorker.getSize() and getStatus(): queue.size and queue.pending
getSize == Len(queue)
getStatus == [size |-> Len(queue), pending |-> pending, isPaused |-> isPaused]

\* C34: every admitted task is waiting, executing, settled or dropped by
\* clear, and in one of these only; getSize() is the number of waiting tasks,
\* getStatus().pending the number of executing tasks, and their sum the number
\* of admitted tasks neither settled nor dropped
C34_SizeAndPendingCountTasks ==
  /\ \A t \in Admitted :
       Cardinality({k \in 1..4 :
                      <<IsWaiting(t), IsExecuting(t), IsSettled(t), Dropped(t)>>[k]}) = 1
  /\ getSize = Cardinality({t \in Admitted : IsWaiting(t)})
  /\ getStatus.size = getSize
  /\ getStatus.pending = Cardinality({t \in Admitted : IsExecuting(t)})
  /\ getStatus.size + getStatus.pending =
       Cardinality({t \in Admitted : ~IsSettled(t) /\ ~Dropped(t)})

\* a task waits, another executes, and a third was dropped by clear
C34_Witness ==
  \E t, u, v \in Tasks : IsWaiting(t) /\ IsExecuting(u) /\ Dropped(v)

\* --------------------------------------------------------------------- C35
\* the message of the error generateConfig throws, as the pieces the routes
\* search it for: `Template not found: type/name` from loadTemplate and
\* `Node with ID n not found` from getNodeContext
ErrorMessage(r) ==
  IF r.outcome = "template_not_found"
  THEN <<"Template", " ", "not found", ": ", TemplateKey(r.request)[1], "/",
         TemplateKey(r.request)[2]>>
  ELSE <<"Node with ID", " ", ToString(r.request.nodeId), " ", "not found">>

\* String.prototype.includes: the pieces searched for stand somewhere in the
\* message, one after the other
Includes(message, searched) ==
  \E i \in 0..(Len(message) - Len(searched)) :
    \A k \in 1..Len(searched) : message[i + k] = searched[k]

\* the catch clause of GET /config/node/:nodeId/:configType and of
\* POST /config/generate: its tests in the order of the code
ErrorCode(message) ==
  IF Includes(message, <<"not found">>) THEN "NODE_NOT_FOUND"
  ELSE IF Includes(message, <<"Template", " ", "not found">>) THEN "TEMPLATE_NOT_FOUND"
  ELSE "INTERNAL_ERROR"

\* C35: the two routes answer a generateConfig that failed for a missing
\* template with TEMPLATE_NOT_FOUND, never with NODE_NOT_FOUND, and one that
\* failed for a missing node with NODE_NOT_FOUND
C35_MissingTemplateAnsweredAsTemplate ==
  /\ configResult.outcome = "template_not_found" =>
       ErrorCode(ErrorMessage(configResult)) = "TEMPLATE_NOT_FOUND"
  /\ configResult.outcome = "node_not_found" =>
       ErrorCode(ErrorMessage(configResult)) = "NODE_NOT_FOUND"

\* --------------------------------------------------------------------- C38
\* the hosts the sweep's loop has called notifyHostOffline for
Attempted(calls) == {name \in HostNames : calls[name] > 0}

\* the hosts a step takes from a status other than offline to offline
TurnedOffline(before, after) ==
  {name \in HostNames : before[name].status # "offline" /\ after[name].status = "offline"}

\* C38: when checkHostHeartbeats ends, the hosts it attempted an offline
\* notification for are the hosts it changed to offline: it changed every
\* host it notified, and with notification enabled it notified every host it
\* changed
C38_NotifiedAreMarked ==
  [][(sweepPc \in {"heartbeats", "mark"} /\ sweepPc' = "disk") =>
       (/\ Attempted(offlineAttempts') \subseteq TurnedOffline(hosts, hosts')
        /\ monitorConfig.notifyOnHostOffline /\ telegramEnabled =>
             TurnedOffline(hosts, hosts') \subseteq Attempted(offlineAttempts'))]_vars

\* --------------------------------------------------------------------- C37
\* the notifyHostOffline calls that the sweeps in progress, or just ended,
\* have made for the host's present staleness: those of the sweep that has had
\* no heartbeat of the host since, and those of the sweep begun during it that
\* were given the lastHeartbeat the host still has
NotificationsFor(name) ==
  (IF name \in sweepStale THEN offlineAttempts[name] ELSE 0)
  + (IF overlapSweep.seen[name] = LastHeartbeat(hosts[name])
     THEN overlapSweep.calls[name] ELSE 0)

\* C37: when a host passes to offline, the sweeps have attempted at most one
\* offline notification for it, also when one sweep was begun by the timer
\* while another was in progress
C37_OneNotificationPerTransition ==
  [][\A name \in TurnedOffline(hosts, hosts') : NotificationsFor(name) <= 1]_vars

\* --------------------------------------------------------------------- C39
\* a step in which runCheck is called
SweepBegins == sweepPc = "idle" /\ sweepPc' = "heartbeats"

====
